---- MODULE Spec2Model ----
(***************************************************************************)
(* FlexDB: an in-memory typed key-value store (string, list, hash) with    *)
(* per-key expiration, a debounced JSON snapshot writer, an append-only    *)
(* command log (AOF) and a 1 Hz expiration sweeper.                        *)
(*                                                                         *)
(* Strings are sequences of characters (one-character TLA+ strings), so    *)
(* that the AOF line format and its parser work on characters.  A command  *)
(* name and a printed integer are single characters of that alphabet: a    *)
(* word without a space or a quote in it.                                  *)
(* Time is counted in whole seconds by the variable now.                   *)
(***************************************************************************)
EXTENDS Integers, Sequences, FiniteSets, TLC

(* ---------------------------------------------------------------- bounds *)
MaxLen     == 2   \* longest list a push may build
MaxTime    == 2   \* the clock stops advancing at this instant
MaxPending == 1   \* deferred deletions of one key in flight at once
MaxAof     == 1   \* lines the AOF may hold before logging mutations stop
QueueCap   == 2   \* capacity of writeQueue; make(chan struct{}, 100) in the code, scaled down
MaxRestarts == 1  \* process kills followed by a restart
MaxList     == 5   \* longest list the list-command specification starts from
MaxRespLen  == 2   \* longest string and longest array of the RESP values marshalled
MaxRespInt  == 12  \* largest absolute value of the RESP integers marshalled
MaxApplied == 2   \* logged pushes a run of connections applies
MaxFrames  == 2   \* frames one RESP connection sends

(* ------------------------------------------------------- input alphabets *)
Keys   == {<<"k">>}
Vals   == {<<"a">>, <<"b">>}
Fields == {<<"f">>, <<"g">>}
Durs   == {1}                              \* durations of SET .. EX and EXPIRE, seconds
Idx    == (0 - (MaxLen + 1)) .. (MaxLen + 1)   \* signed list indices and counts

SeqsUpTo(S, n) == UNION {[1..m -> S] : m \in 1..n}

(* ------------------------------------------------------------ data model *)
TypeString == 0
TypeList   == 1
TypeHash   == 2
NoExp      == -1                           \* Expiration == nil

EmptyHash == [f \in {} |-> <<>>]

\* Value{Type, Data, Expiration}; Data is Str, List or Hash according to Type
\* Json tells the dynamic type of Data: FALSE for string, []string and
\* map[string]string as the commands store them, TRUE for []interface{} and
\* map[string]interface{} as json.Unmarshal decodes an array and an object
Value(t, s, l, h, e) ==
    [Type |-> t, Str |-> s, List |-> l, Hash |-> h, Exp |-> e, Json |-> FALSE]
StringValue(s, e) == Value(TypeString, s, <<>>, EmptyHash, e)
ListValue(l, e)   == Value(TypeList, <<>>, l, EmptyHash, e)
HashValue(h, e)   == Value(TypeHash, <<>>, <<>>, h, e)

\* val.Expiration != nil && time.Now().After(*val.Expiration)
Expired(v, t) == v.Exp /= NoExp /\ t > v.Exp

\* delete(db.data, key) and db.data[key] = val on the Go map
MapDelete(d, k) == [x \in (DOMAIN d) \ {k} |-> d[x]]
MapPut(d, k, v) == [x \in (DOMAIN d) \cup {k} |-> IF x = k THEN v ELSE d[x]]
EmptyMap == [x \in {} |-> StringValue(<<>>, NoExp)]

VARIABLES
    data,        \* db.data: the map key -> Value
    now,         \* time.Now(), in seconds
    writeQueue,  \* number of signals buffered in db.writeQueue
    aof,         \* the AOF: policy, bufio buffer, file content, fsynced prefix
    reply,       \* what the last store operation returned to its caller
    sweep,       \* expirationChecker: keysToDelete between its two locked sections
    pending,     \* deferred deletions spawned by Get, per key
    disk,        \* the snapshot file at db.file and the file at db.file + ".tmp"
    savers,      \* each goroutine that can be inside save(): position, bytes, open file
    started,     \* the startup steps of NewFlexDB and main performed so far
    restarts,    \* how many times the process was killed and started again
    acked,       \* the map as the acknowledged commands left it when the process was killed
    wire         \* a RESP connection: the value to send, its bytes, what Parse made of them

vars == <<data, now, writeQueue, aof, reply, sweep, pending,
          disk, savers, started, restarts, acked, wire>>
diskVars == <<disk, savers, started, restarts, acked, wire>>


(* --------------------------------------------------------- return values *)
EmptyAll == [x \in {} |-> <<>>]

\* the value part of what a store operation returns; kind names its Go type.
\* A time.Duration is int whole seconds plus ns nanoseconds.
Ret(kd, n, f, s, l, h, m) ==
    [kind |-> kd, int |-> n, ns |-> f, str |-> s, list |-> l, hash |-> h, all |-> m]
NoRet      == Ret("none", 0, 0, <<>>, <<>>, EmptyHash, EmptyAll)
RetInt(n)  == Ret("int", n, 0, <<>>, <<>>, EmptyHash, EmptyAll)
RetBool(b) == Ret("bool", IF b THEN 1 ELSE 0, 0, <<>>, <<>>, EmptyHash, EmptyAll)
RetStr(s)  == Ret("string", 0, 0, s, <<>>, EmptyHash, EmptyAll)
RetList(l) == Ret("list", 0, 0, <<>>, l, EmptyHash, EmptyAll)
RetHash(h) == Ret("hash", 0, 0, <<>>, <<>>, h, EmptyAll)
RetAll(m)  == Ret("map", 0, 0, <<>>, <<>>, EmptyHash, m)
RetDur(secs) == Ret("duration", secs, 0, <<>>, <<>>, EmptyHash, EmptyAll)
\* return -1, nil: a Duration of -1 nanosecond
RetNoTTL     == Ret("duration", 0, 0 - 1, <<>>, <<>>, EmptyHash, EmptyAll)

\* val.Data as an interface{}: the payload with its dynamic type
DataOf(v) ==
    IF v.Type = TypeString THEN RetStr(v.Str)
    ELSE IF v.Type = TypeList THEN RetList(v.List)
    ELSE RetHash(v.Hash)

\* errors.New(...) messages of the store; "" is the nil error
ErrNone       == ""
ErrNotFound   == "key not found"
ErrNotList    == "value is not a list"
ErrNotHash    == "value is not a hash"
ErrEmptyList  == "list is empty"
ErrOutOfRange == "index out of range"
ErrNoField    == "field not found"
ErrPanic      == "interface conversion"   \* the runtime panic of a failed type assertion

\* The outcome of one store operation run under the store lock: the map it
\* leaves, the error and value it returns, the LogCommand call it makes when the
\* AOF is enabled (at most one), whether it calls triggerWrite, and the keys for
\* which it spawns a deferred deletion.
Out(d, e, r, l, t, s) ==
    [data |-> d, err |-> e, ret |-> r, log |-> l, trig |-> t, spawn |-> s]
Cmd(c, a) == <<[cmd |-> c, args |-> a]>>
NoLog == <<>>

\* fmt.Sprintf("%d", n): the sign and the decimal digits
RECURSIVE Itoa(_)
Itoa(n) ==
    IF n < 0 THEN <<"-">> \o Itoa(0 - n)
    ELSE IF n < 10 THEN <<ToString(n)>>
    ELSE Itoa(n \div 10) \o <<ToString(n % 10)>>

(* ------------------------------------------------- db.go: string commands *)
Set(d, key, value, expiration) ==
    Out(MapPut(d, key, StringValue(value, expiration)), ErrNone, NoRet, NoLog, TRUE, {})

\* Get without the expiration test (a fault C2_ExpiredInvisible must catch)
GetIgnoringExpiry(d, t, key) ==
    IF key \notin DOMAIN d
    THEN Out(d, ErrNotFound, NoRet, NoLog, FALSE, {})
    ELSE Out(d, ErrNone, DataOf(d[key]), NoLog, FALSE, {})

Get(d, t, key) ==
    IF key \notin DOMAIN d
    THEN Out(d, ErrNotFound, NoRet, NoLog, FALSE, {})
    ELSE IF Expired(d[key], t)
    THEN Out(d, ErrNotFound, NoRet, NoLog, FALSE, {key})
    ELSE Out(d, ErrNone, DataOf(d[key]), NoLog, FALSE, {})

Delete(d, key) ==
    IF key \notin DOMAIN d
    THEN Out(d, ErrNotFound, NoRet, NoLog, FALSE, {})
    ELSE Out(MapDelete(d, key), ErrNone, NoRet, NoLog, TRUE, {})

\* All without the expiration test (a fault C23_GoneAfterExpiration must catch)
AllKeepingExpired(d, t) ==
    Out(d, ErrNone, RetAll([k \in DOMAIN d |-> DataOf(d[k])]), NoLog, FALSE, {})

All(d, t) ==
    LET live == {k \in DOMAIN d : ~Expired(d[k], t)}
    IN Out(d, ErrNone, RetAll([k \in live |-> DataOf(d[k])]), NoLog, FALSE, {})

Expire(d, t, key, duration) ==
    IF key \notin DOMAIN d
    THEN Out(d, ErrNotFound, NoRet, NoLog, FALSE, {})
    ELSE Out(MapPut(d, key, [d[key] EXCEPT !.Exp = t + duration]),
             ErrNone, NoRet, NoLog, TRUE, {})

TTL(d, t, key) ==
    IF key \notin DOMAIN d
    THEN Out(d, ErrNotFound, RetDur(0), NoLog, FALSE, {})
    ELSE IF d[key].Exp = NoExp
    THEN Out(d, ErrNone, RetNoTTL, NoLog, FALSE, {})
    ELSE Out(d, ErrNone, RetDur(d[key].Exp - t), NoLog, FALSE, {})

(* --------------------------------------------------- lists.go: list commands *)
\* for i := len(values) - 1; i >= 0; i-- { list = append([]string{values[i]}, list...) }
RECURSIVE PrependLoop(_, _, _)
PrependLoop(values, i, list) ==
    IF i < 1 THEN list ELSE PrependLoop(values, i - 1, <<values[i]>> \o list)

\* list[a : b] on 0-based half-open bounds
Slice(list, a, b) == SubSeq(list, a + 1, b)

\* append(list[:i], list[i+1:]...)
RemoveAt(list, i) == Slice(list, 0, i) \o Slice(list, i + 1, Len(list))

\* if start/stop < 0 { += length }; if start < 0 { start = 0 }; if stop >= length { stop = length - 1 }
NormStart(length, start) ==
    LET s == IF start < 0 THEN length + start ELSE start
    IN IF s < 0 THEN 0 ELSE s
NormStop(length, stop) ==
    LET e == IF stop < 0 THEN length + stop ELSE stop
    IN IF e >= length THEN length - 1 ELSE e

\* if index < 0 { index = length + index }
NormIndex(length, index) == IF index < 0 THEN length + index ELSE index

\* LPush putting the values one by one at the head, the last argument ending
\* first (a fault C12_LPushFirstAtHead must catch)
LPushLastAtHead(d, t, key, values) ==
    LET exists == key \in DOMAIN d /\ ~Expired(d[key], t)
        d1     == IF key \in DOMAIN d /\ ~exists THEN MapDelete(d, key) ELSE d
    IN IF exists /\ d[key].Type /= TypeList
       THEN Out(d, ErrNotList, RetInt(0), NoLog, FALSE, {})
       ELSE LET val  == IF exists THEN d[key] ELSE ListValue(<<>>, NoExp)
                list == [i \in 1..Len(values) |-> values[Len(values) + 1 - i]] \o val.List
            IN Out(MapPut(d1, key, [val EXCEPT !.List = list]), ErrNone,
                   RetInt(Len(list)), Cmd("LPUSH", <<key>> \o values), TRUE, {})

\* LPush without the kind test (a fault C9_TypeMismatchNoEffect must catch)
LPushOverAnyKind(d, t, key, values) ==
    LET exists == key \in DOMAIN d /\ ~Expired(d[key], t) /\ d[key].Type = TypeList
        val    == IF exists THEN d[key] ELSE ListValue(<<>>, NoExp)
        list   == PrependLoop(values, Len(values), val.List)
    IN Out(MapPut(d, key, [val EXCEPT !.List = list]), ErrNone,
           RetInt(Len(list)), Cmd("LPUSH", <<key>> \o values), TRUE, {})

LPush(d, t, key, values) ==
    LET found   == key \in DOMAIN d
        expired == found /\ Expired(d[key], t)
        exists  == found /\ ~expired
        d1      == IF expired THEN MapDelete(d, key) ELSE d
    IN IF exists /\ d[key].Type /= TypeList
       THEN Out(d, ErrNotList, RetInt(0), NoLog, FALSE, {})
       ELSE LET val  == IF exists THEN d[key] ELSE ListValue(<<>>, NoExp)
                list == PrependLoop(values, Len(values), val.List)
            IN Out(MapPut(d1, key, [val EXCEPT !.List = list]), ErrNone,
                   RetInt(Len(list)), Cmd("LPUSH", <<key>> \o values), TRUE, {})

\* RPush putting the values before the list (a fault C11_RPushAppends must catch)
RPushInFront(d, t, key, values) ==
    LET exists == key \in DOMAIN d /\ ~Expired(d[key], t)
        d1     == IF key \in DOMAIN d /\ ~exists THEN MapDelete(d, key) ELSE d
    IN IF exists /\ d[key].Type /= TypeList
       THEN Out(d, ErrNotList, RetInt(0), NoLog, FALSE, {})
       ELSE LET val  == IF exists THEN d[key] ELSE ListValue(<<>>, NoExp)
                list == values \o val.List
            IN Out(MapPut(d1, key, [val EXCEPT !.List = list]), ErrNone,
                   RetInt(Len(list)), Cmd("RPUSH", <<key>> \o values), TRUE, {})

RPush(d, t, key, values) ==
    LET found   == key \in DOMAIN d
        expired == found /\ Expired(d[key], t)
        exists  == found /\ ~expired
        d1      == IF expired THEN MapDelete(d, key) ELSE d
    IN IF exists /\ d[key].Type /= TypeList
       THEN Out(d, ErrNotList, RetInt(0), NoLog, FALSE, {})
       ELSE LET val  == IF exists THEN d[key] ELSE ListValue(<<>>, NoExp)
                list == val.List \o values
            IN Out(MapPut(d1, key, [val EXCEPT !.List = list]), ErrNone,
                   RetInt(Len(list)), Cmd("RPUSH", <<key>> \o values), TRUE, {})

\* LPop with the emptied list left under its key (a fault C8_NoEmptyContainer must catch)
LPopKeepingEmpty(d, t, key) ==
    IF key \notin DOMAIN d
    THEN Out(d, ErrNotFound, RetStr(<<>>), NoLog, FALSE, {})
    ELSE IF Expired(d[key], t)
    THEN Out(MapDelete(d, key), ErrNotFound, RetStr(<<>>), NoLog, FALSE, {})
    ELSE IF d[key].Type /= TypeList
    THEN Out(d, ErrNotList, RetStr(<<>>), NoLog, FALSE, {})
    ELSE IF Len(d[key].List) = 0
    THEN Out(d, ErrEmptyList, RetStr(<<>>), NoLog, FALSE, {})
    ELSE LET list == d[key].List
             item == list[1]
             rest == Slice(list, 1, Len(list))
             d1   == MapPut(d, key, [d[key] EXCEPT !.List = rest])
         IN Out(d1, ErrNone, RetStr(item), Cmd("LPOP", <<key>>), TRUE, {})

LPop(d, t, key) ==
    IF key \notin DOMAIN d
    THEN Out(d, ErrNotFound, RetStr(<<>>), NoLog, FALSE, {})
    ELSE IF Expired(d[key], t)
    THEN Out(MapDelete(d, key), ErrNotFound, RetStr(<<>>), NoLog, FALSE, {})
    ELSE IF d[key].Type /= TypeList
    THEN Out(d, ErrNotList, RetStr(<<>>), NoLog, FALSE, {})
    ELSE IF Len(d[key].List) = 0
    THEN Out(d, ErrEmptyList, RetStr(<<>>), NoLog, FALSE, {})
    ELSE LET list == d[key].List
             item == list[1]
             rest == Slice(list, 1, Len(list))
             d1   == IF Len(rest) = 0 THEN MapDelete(d, key)
                     ELSE MapPut(d, key, [d[key] EXCEPT !.List = rest])
         IN Out(d1, ErrNone, RetStr(item), Cmd("LPOP", <<key>>), TRUE, {})

RPop(d, t, key) ==
    IF key \notin DOMAIN d
    THEN Out(d, ErrNotFound, RetStr(<<>>), NoLog, FALSE, {})
    ELSE IF Expired(d[key], t)
    THEN Out(MapDelete(d, key), ErrNotFound, RetStr(<<>>), NoLog, FALSE, {})
    ELSE IF d[key].Type /= TypeList
    THEN Out(d, ErrNotList, RetStr(<<>>), NoLog, FALSE, {})
    ELSE IF Len(d[key].List) = 0
    THEN Out(d, ErrEmptyList, RetStr(<<>>), NoLog, FALSE, {})
    ELSE LET list == d[key].List
             item == list[Len(list)]
             rest == Slice(list, 0, Len(list) - 1)
             d1   == IF Len(rest) = 0 THEN MapDelete(d, key)
                     ELSE MapPut(d, key, [d[key] EXCEPT !.List = rest])
         IN Out(d1, ErrNone, RetStr(item), Cmd("RPOP", <<key>>), TRUE, {})

\* LRange with the end taken as exclusive (a fault C14_LRangeWindow must catch)
LRangeExclusiveEnd(d, t, key, start, stop) ==
    IF key \notin DOMAIN d \/ Expired(d[key], t)
    THEN Out(d, ErrNone, RetList(<<>>), NoLog, FALSE, {})
    ELSE IF d[key].Type /= TypeList
    THEN Out(d, ErrNotList, RetList(<<>>), NoLog, FALSE, {})
    ELSE LET list   == d[key].List
             length == Len(list)
             s      == NormStart(length, start)
             e      == NormStop(length, stop)
         IN IF s > e \/ s >= length
            THEN Out(d, ErrNone, RetList(<<>>), NoLog, FALSE, {})
            ELSE Out(d, ErrNone, RetList(Slice(list, s, e)), NoLog, FALSE, {})

LRange(d, t, key, start, stop) ==
    IF key \notin DOMAIN d \/ Expired(d[key], t)
    THEN Out(d, ErrNone, RetList(<<>>), NoLog, FALSE, {})
    ELSE IF d[key].Type /= TypeList
    THEN Out(d, ErrNotList, RetList(<<>>), NoLog, FALSE, {})
    ELSE LET list   == d[key].List
             length == Len(list)
             s      == NormStart(length, start)
             e      == NormStop(length, stop)
         IN IF s > e \/ s >= length
            THEN Out(d, ErrNone, RetList(<<>>), NoLog, FALSE, {})
            ELSE Out(d, ErrNone, RetList(Slice(list, s, e + 1)), NoLog, FALSE, {})

LLen(d, t, key) ==
    IF key \notin DOMAIN d \/ Expired(d[key], t)
    THEN Out(d, ErrNone, RetInt(0), NoLog, FALSE, {})
    ELSE IF d[key].Type /= TypeList
    THEN Out(d, ErrNotList, RetInt(0), NoLog, FALSE, {})
    ELSE Out(d, ErrNone, RetInt(Len(d[key].List)), NoLog, FALSE, {})

LIndex(d, t, key, index) ==
    IF key \notin DOMAIN d \/ Expired(d[key], t)
    THEN Out(d, ErrNotFound, RetStr(<<>>), NoLog, FALSE, {})
    ELSE IF d[key].Type /= TypeList
    THEN Out(d, ErrNotList, RetStr(<<>>), NoLog, FALSE, {})
    ELSE LET list == d[key].List
             i    == NormIndex(Len(list), index)
         IN IF i < 0 \/ i >= Len(list)
            THEN Out(d, ErrOutOfRange, RetStr(<<>>), NoLog, FALSE, {})
            ELSE Out(d, ErrNone, RetStr(list[i + 1]), NoLog, FALSE, {})

\* LSet writing the nearest element when the index is out of range (a fault
\* C16_IndexAddressing must catch)
LSetClamped(d, t, key, index, value) ==
    IF key \notin DOMAIN d \/ Expired(d[key], t)
    THEN Out(d, ErrNotFound, NoRet, NoLog, FALSE, {})
    ELSE IF d[key].Type /= TypeList
    THEN Out(d, ErrNotList, NoRet, NoLog, FALSE, {})
    ELSE LET list == d[key].List
             n    == NormIndex(Len(list), index)
             i    == IF n < 0 THEN 0 ELSE IF n >= Len(list) THEN Len(list) - 1 ELSE n
         IN Out(MapPut(d, key, [d[key] EXCEPT !.List = [list EXCEPT ![i + 1] = value]]),
                ErrNone, NoRet, Cmd("LSET", <<key, Itoa(i), value>>), TRUE, {})

LSet(d, t, key, index, value) ==
    IF key \notin DOMAIN d \/ Expired(d[key], t)
    THEN Out(d, ErrNotFound, NoRet, NoLog, FALSE, {})
    ELSE IF d[key].Type /= TypeList
    THEN Out(d, ErrNotList, NoRet, NoLog, FALSE, {})
    ELSE LET list == d[key].List
             i    == NormIndex(Len(list), index)
         IN IF i < 0 \/ i >= Len(list)
            THEN Out(d, ErrOutOfRange, NoRet, NoLog, FALSE, {})
            ELSE Out(MapPut(d, key, [d[key] EXCEPT !.List = [list EXCEPT ![i + 1] = value]]),
                     ErrNone, NoRet, Cmd("LSET", <<key, Itoa(i), value>>), TRUE, {})

\* for i := 0; i < len(list) && (count == 0 || removed < count); { ... }
RECURSIVE LRemHead(_, _, _, _, _)
LRemHead(list, i, removed, count, value) ==
    IF i < Len(list) /\ (count = 0 \/ removed < count)
    THEN IF list[i + 1] = value
         THEN LRemHead(RemoveAt(list, i), i, removed + 1, count, value)
         ELSE LRemHead(list, i + 1, removed, count, value)
    ELSE [list |-> list, removed |-> removed]

\* the tail scan replaced by a head scan (a fault C15_LRemCounts must catch)
LRemTailFromHead(list, i, removed, count, value) ==
    LRemHead(list, 0, removed, 0 - count, value)

\* for i := len(list) - 1; i >= 0 && (count == 0 || removed < -count); { ...; i-- }
RECURSIVE LRemTail(_, _, _, _, _)
LRemTail(list, i, removed, count, value) ==
    IF i >= 0 /\ (count = 0 \/ removed < 0 - count)
    THEN IF list[i + 1] = value
         THEN LRemTail(RemoveAt(list, i), i - 1, removed + 1, count, value)
         ELSE LRemTail(list, i - 1, removed, count, value)
    ELSE [list |-> list, removed |-> removed]

LRem(d, t, key, count, value) ==
    IF key \notin DOMAIN d \/ Expired(d[key], t)
    THEN Out(d, ErrNone, RetInt(0), NoLog, FALSE, {})
    ELSE IF d[key].Type /= TypeList
    THEN Out(d, ErrNotList, RetInt(0), NoLog, FALSE, {})
    ELSE LET list == d[key].List
             r    == IF count >= 0 THEN LRemHead(list, 0, 0, count, value)
                     ELSE LRemTail(list, Len(list) - 1, 0, count, value)
             d1   == IF Len(r.list) = 0 THEN MapDelete(d, key)
                     ELSE MapPut(d, key, [d[key] EXCEPT !.List = r.list])
         IN Out(d1, ErrNone, RetInt(r.removed),
                IF r.removed > 0 THEN Cmd("LREM", <<key, Itoa(count), value>>) ELSE NoLog,
                r.removed > 0, {})

\* LTrim with the end taken as exclusive (a fault C17_LTrimIsLRange must catch)
LTrimExclusiveEnd(d, t, key, start, stop) ==
    IF key \notin DOMAIN d
    THEN Out(d, ErrNone, NoRet, NoLog, FALSE, {})
    ELSE IF Expired(d[key], t)
    THEN Out(MapDelete(d, key), ErrNone, NoRet, NoLog, FALSE, {})
    ELSE IF d[key].Type /= TypeList
    THEN Out(d, ErrNotList, NoRet, NoLog, FALSE, {})
    ELSE LET list   == d[key].List
             length == Len(list)
             s      == NormStart(length, start)
             e      == NormStop(length, stop)
             d1     == IF s >= e \/ s >= length THEN MapDelete(d, key)
                       ELSE MapPut(d, key, [d[key] EXCEPT !.List = Slice(list, s, e)])
         IN Out(d1, ErrNone, NoRet, Cmd("LTRIM", <<key, Itoa(s), Itoa(e)>>), TRUE, {})

LTrim(d, t, key, start, stop) ==
    IF key \notin DOMAIN d
    THEN Out(d, ErrNone, NoRet, NoLog, FALSE, {})
    ELSE IF Expired(d[key], t)
    THEN Out(MapDelete(d, key), ErrNone, NoRet, NoLog, FALSE, {})
    ELSE IF d[key].Type /= TypeList
    THEN Out(d, ErrNotList, NoRet, NoLog, FALSE, {})
    ELSE LET list   == d[key].List
             length == Len(list)
             s      == NormStart(length, start)
             e      == NormStop(length, stop)
             d1     == IF s > e \/ s >= length THEN MapDelete(d, key)
                       ELSE MapPut(d, key, [d[key] EXCEPT !.List = Slice(list, s, e + 1)])
         IN Out(d1, ErrNone, NoRet, Cmd("LTRIM", <<key, Itoa(s), Itoa(e)>>), TRUE, {})

(* ------------------------------------------------------ hash commands *)
\* HSet storing a map that holds the one field only (a fault C18_HSetThenHGet
\* must catch)
HSetDroppingOthers(d, t, key, field, value) ==
    LET found   == key \in DOMAIN d
        expired == found /\ Expired(d[key], t)
        exists  == found /\ ~expired
        d1      == IF expired THEN MapDelete(d, key) ELSE d
    IN IF exists /\ d[key].Type /= TypeHash
       THEN Out(d, ErrNotHash, RetInt(0), NoLog, FALSE, {})
       ELSE LET val         == IF exists THEN d[key] ELSE HashValue(EmptyHash, NoExp)
                fieldExists == exists /\ field \in DOMAIN val.Hash
                hashMap     == MapPut(EmptyHash, field, value)
            IN Out(MapPut(d1, key, [val EXCEPT !.Hash = hashMap]), ErrNone,
                   RetInt(IF fieldExists THEN 0 ELSE 1),
                   Cmd("HSET", <<key, field, value>>), TRUE, {})

HSet(d, t, key, field, value) ==
    LET found   == key \in DOMAIN d
        expired == found /\ Expired(d[key], t)
        exists  == found /\ ~expired
        d1      == IF expired THEN MapDelete(d, key) ELSE d
    IN IF exists /\ d[key].Type /= TypeHash
       THEN Out(d, ErrNotHash, RetInt(0), NoLog, FALSE, {})
       ELSE LET val         == IF exists THEN d[key] ELSE HashValue(EmptyHash, NoExp)
                fieldExists == exists /\ field \in DOMAIN val.Hash
                hashMap     == MapPut(val.Hash, field, value)
            IN Out(MapPut(d1, key, [val EXCEPT !.Hash = hashMap]), ErrNone,
                   RetInt(IF fieldExists THEN 0 ELSE 1),
                   Cmd("HSET", <<key, field, value>>), TRUE, {})

HGet(d, t, key, field) ==
    IF key \notin DOMAIN d \/ Expired(d[key], t)
    THEN Out(d, ErrNotFound, RetStr(<<>>), NoLog, FALSE, {})
    ELSE IF d[key].Type /= TypeHash
    THEN Out(d, ErrNotHash, RetStr(<<>>), NoLog, FALSE, {})
    ELSE IF field \notin DOMAIN d[key].Hash
    THEN Out(d, ErrNoField, RetStr(<<>>), NoLog, FALSE, {})
    ELSE Out(d, ErrNone, RetStr(d[key].Hash[field]), NoLog, FALSE, {})

\* for _, field := range fields { if _, exists := hashMap[field]; exists { delete; deleted++ } }
RECURSIVE HDelLoop(_, _, _, _)
HDelLoop(hashMap, fields, i, deleted) ==
    IF i > Len(fields) THEN [hash |-> hashMap, deleted |-> deleted]
    ELSE IF fields[i] \in DOMAIN hashMap
    THEN HDelLoop(MapDelete(hashMap, fields[i]), fields, i + 1, deleted + 1)
    ELSE HDelLoop(hashMap, fields, i + 1, deleted)

HDel(d, t, key, fields) ==
    IF key \notin DOMAIN d \/ Expired(d[key], t)
    THEN Out(d, ErrNone, RetInt(0), NoLog, FALSE, {})
    ELSE IF d[key].Type /= TypeHash
    THEN Out(d, ErrNotHash, RetInt(0), NoLog, FALSE, {})
    ELSE LET r  == HDelLoop(d[key].Hash, fields, 1, 0)
             d1 == IF Cardinality(DOMAIN r.hash) = 0 THEN MapDelete(d, key)
                   ELSE MapPut(d, key, [d[key] EXCEPT !.Hash = r.hash])
         IN Out(d1, ErrNone, RetInt(r.deleted),
                IF r.deleted > 0 THEN Cmd("HDEL", <<key>> \o fields) ELSE NoLog,
                r.deleted > 0, {})

HGetAll(d, t, key) ==
    IF key \notin DOMAIN d \/ Expired(d[key], t)
    THEN Out(d, ErrNone, RetHash(EmptyHash), NoLog, FALSE, {})
    ELSE IF d[key].Type /= TypeHash
    THEN Out(d, ErrNotHash, RetHash(EmptyHash), NoLog, FALSE, {})
    ELSE Out(d, ErrNone, RetHash(d[key].Hash), NoLog, FALSE, {})

HExists(d, t, key, field) ==
    IF key \notin DOMAIN d \/ Expired(d[key], t)
    THEN Out(d, ErrNone, RetBool(FALSE), NoLog, FALSE, {})
    ELSE IF d[key].Type /= TypeHash
    THEN Out(d, ErrNotHash, RetBool(FALSE), NoLog, FALSE, {})
    ELSE Out(d, ErrNone, RetBool(field \in DOMAIN d[key].Hash), NoLog, FALSE, {})

HLen(d, t, key) ==
    IF key \notin DOMAIN d \/ Expired(d[key], t)
    THEN Out(d, ErrNone, RetInt(0), NoLog, FALSE, {})
    ELSE IF d[key].Type /= TypeHash
    THEN Out(d, ErrNotHash, RetInt(0), NoLog, FALSE, {})
    ELSE Out(d, ErrNone, RetInt(Cardinality(DOMAIN d[key].Hash)), NoLog, FALSE, {})

\* for k := range hashMap: the fields of the hash in the order this iteration
\* of the Go map visits them (order lists every possible field once)
RECURSIVE RangeOver(_, _, _)
RangeOver(hashMap, order, i) ==
    IF i > Len(order) THEN <<>>
    ELSE (IF order[i] \in DOMAIN hashMap THEN <<order[i]>> ELSE <<>>)
         \o RangeOver(hashMap, order, i + 1)

Orders == {o \in [1..Cardinality(Fields) -> Fields] : \A f \in Fields : \E i \in DOMAIN o : o[i] = f}

HKeys(d, t, key, order) ==
    IF key \notin DOMAIN d \/ Expired(d[key], t)
    THEN Out(d, ErrNone, RetList(<<>>), NoLog, FALSE, {})
    ELSE IF d[key].Type /= TypeHash
    THEN Out(d, ErrNotHash, RetList(<<>>), NoLog, FALSE, {})
    ELSE Out(d, ErrNone, RetList(RangeOver(d[key].Hash, order, 1)), NoLog, FALSE, {})

HVals(d, t, key, order) ==
    IF key \notin DOMAIN d \/ Expired(d[key], t)
    THEN Out(d, ErrNone, RetList(<<>>), NoLog, FALSE, {})
    ELSE IF d[key].Type /= TypeHash
    THEN Out(d, ErrNotHash, RetList(<<>>), NoLog, FALSE, {})
    ELSE LET ks == RangeOver(d[key].Hash, order, 1)
         IN Out(d, ErrNone, RetList([i \in DOMAIN ks |-> d[key].Hash[ks[i]]]),
                NoLog, FALSE, {})

(* ------------------------------------------------------------ aof.go *)
AOFSyncAlways      == 0
AOFSyncEverySecond == 1
AOFSyncNever       == 2

\* strings.Contains(arg, " ")
ContainsSpace(arg) == \E i \in DOMAIN arg : arg[i] = " "

\* the strings.Builder of LogCommand: the command name, then every argument
\* (or, for an argument with a space in it, the quoted command name), no separator
RECURSIVE FormatArgs(_, _, _)
FormatArgs(cmd, args, i) ==
    IF i > Len(args) THEN <<>>
    ELSE (IF ContainsSpace(args[i]) THEN <<"\"", cmd, "\"">> ELSE args[i])
         \o FormatArgs(cmd, args, i + 1)

\* one line of the AOF, without its "\n"
FormatLine(cmd, args) == <<cmd>> \o FormatArgs(cmd, args, 1)

\* aof.writer.Flush(); aof.file.Sync(). On a closed file the Flush fails: the
\* bufio.Writer keeps its bytes and its error, and nothing reaches the file
sync(a) ==
    LET file == a.file \o a.buf
    IN IF a.writer /= "open" THEN [a EXCEPT !.writer = "failed"]
       ELSE [a EXCEPT !.buf = <<>>, !.file = file, !.synced = Len(file)]

\* a LogCommand that writes its line ahead of the lines already buffered (a
\* fault C35_LogFollowsApplyOrder must catch)
LogCommandAhead(a, cmd, args) ==
    IF ~a.enabled \/ a.writer = "failed" THEN a
    ELSE LET a1 == [a EXCEPT !.buf = <<FormatLine(cmd, args)>> \o @]
         IN IF a.syncPolicy = AOFSyncAlways THEN sync(a1) ELSE a1

\* aof.writer.WriteString fails at once when an earlier Flush has failed
LogCommand(a, cmd, args) ==
    IF ~a.enabled \/ a.writer = "failed" THEN a
    ELSE LET a1 == [a EXCEPT !.buf = Append(@, FormatLine(cmd, args))]
         IN IF a.syncPolicy = AOFSyncAlways THEN sync(a1) ELSE a1

\* db.aof == nil
\* mu is the holder of aof.mu ("": unlocked); rw, snapshot and tmp are the position
\* of a running RewriteAOF, its snapshot still to write and its temporary file;
\* writer is "open" while aof.file is open, "closed" once it was closed and
\* "failed" once a Flush to the closed file has failed
NoAOF == [enabled |-> FALSE, syncPolicy |-> AOFSyncNever, buf |-> <<>>, file |-> <<>>, synced |-> 0,
          mu |-> "", rw |-> "idle", snapshot |-> EmptyAll, tmp |-> <<>>, writer |-> "open"]
\* NewAOFPersistence on a path with no file yet
NewAOFPersistence(syncPolicy) ==
    [enabled |-> TRUE, syncPolicy |-> syncPolicy, buf |-> <<>>, file |-> <<>>, synced |-> 0,
     mu |-> "", rw |-> "idle", snapshot |-> EmptyAll, tmp |-> <<>>, writer |-> "open"]

(* ------------------------------------------------------ persistence.go *)
\* select { case db.writeQueue <- struct{}{}: default: }
triggerWrite(q) == IF q < QueueCap THEN q + 1 ELSE q

\* PersistentValue: the Expiration pointer becomes unix seconds, 0 when nil
PersistentValue(v) ==
    [type |-> v.Type, str |-> v.Str, list |-> v.List, hash |-> v.Hash,
     exp |-> IF v.Exp /= NoExp THEN v.Exp ELSE 0]
\* save: tempData and json.MarshalIndent
Marshal(d) == [k \in DOMAIN d |-> PersistentValue(d[k])]
\* the length of the marshalled bytes, counted in JSON members
Size(bytes) ==
    LET n == Cardinality(DOMAIN bytes)
        withExp == Cardinality({k \in DOMAIN bytes : bytes[k].exp > 0})
    IN n + withExp

\* json.Unmarshal into Data interface{}: a JSON string decodes to a string, an
\* array to []interface{} and an object to map[string]interface{}
Unmarshalled(pv) ==
    [Value(pv.type, pv.str, pv.list, pv.hash, IF pv.exp > 0 THEN pv.exp ELSE NoExp)
        EXCEPT !.Json = (pv.type \in {TypeList, TypeHash})]

\* load of internal/db/persistence.go: a missing or undecodable file leaves the
\* map alone; entries whose expiration is in the past are skipped, the others
\* are put into the map with Data as json.Unmarshal decoded it
load(d, file, t) ==
    IF ~file.exists \/ ~file.complete THEN d
    ELSE LET kept == {k \in DOMAIN file.body :
                        ~(file.body[k].exp > 0 /\ t > file.body[k].exp)}
         IN [k \in (DOMAIN d) \cup kept |->
                IF k \in kept THEN Unmarshalled(file.body[k]) ELSE d[k]]

\* the type switch of the other load: []interface{} becomes []string under
\* TypeList and map[string]interface{} becomes map[string]string under TypeHash
Converted(v) ==
    IF v.Type \in {TypeList, TypeHash} /\ v.Json THEN [v EXCEPT !.Json = FALSE] ELSE v

\* load as the second persistence file of the repository has it: the same, with
\* the type switch applied to every entry before it is put into the map
loadConverting(d, file, t) ==
    IF ~file.exists \/ ~file.complete THEN d
    ELSE LET kept == {k \in DOMAIN file.body :
                        ~(file.body[k].exp > 0 /\ t > file.body[k].exp)}
         IN [k \in (DOMAIN d) \cup kept |->
                IF k \in kept THEN Converted(Unmarshalled(file.body[k])) ELSE d[k]]

(* ------------------------------------------------- db.go, aof.go: recovery *)
\* a replay primitive that goes through Set, which signals the snapshot writer
\* (a fault C30_ReplayIsSilent must catch)
setSignalling(d, key, value, expiration) == Set(d, key, value, expiration)

\* the replay primitives: they change the map, call no LogCommand and no triggerWrite
setWithoutLogging(d, key, value, expiration) ==
    Out(MapPut(d, key, StringValue(value, expiration)), ErrNone, NoRet, NoLog, FALSE, {})
deleteWithoutLogging(d, key) == Out(MapDelete(d, key), ErrNone, NoRet, NoLog, FALSE, {})
expireWithoutLogging(d, t, key, duration) ==
    Out(IF key \notin DOMAIN d THEN d ELSE [d EXCEPT ![key].Exp = t + duration],
        ErrNone, NoRet, NoLog, FALSE, {})

\* parseCommandLine: a line is its sequence of characters; a quote toggles
\* inQuotes, a space outside quotes ends the current part
RECURSIVE parseLoop(_, _, _, _, _)
parseLoop(line, i, parts, current, inQuotes) ==
    IF i > Len(line)
    THEN [parts |-> IF current /= <<>> THEN Append(parts, current) ELSE parts,
          err |-> inQuotes]
    ELSE IF line[i] = "\""
    THEN parseLoop(line, i + 1, parts, current, ~inQuotes)
    ELSE IF line[i] = " " /\ ~inQuotes
    THEN parseLoop(line, i + 1,
                   IF current /= <<>> THEN Append(parts, current) ELSE parts,
                   <<>>, inQuotes)
    ELSE parseLoop(line, i + 1, parts, Append(current, line[i]), inQuotes)
parseCommandLine(line) == parseLoop(line, 1, <<>>, <<>>, FALSE)

\* utils.ParseInt, on the decimal numerals in use
ParseInt(s) ==
    IF \E n \in 0..9 : s = Itoa(n)
    THEN [ok |-> TRUE, n |-> CHOOSE n \in 0..9 : s = Itoa(n)]
    ELSE [ok |-> FALSE, n |-> 0]

\* LoadAOF, the switch on one parsed line
replayCommand(d, t, parts) ==
    LET cmd == parts[1]
        args == Tail(parts)
        skip == Out(d, ErrNone, NoRet, NoLog, FALSE, {})
    IN IF cmd = <<"SET">>
       THEN IF Len(args) < 2 THEN skip
            ELSE setWithoutLogging(d, args[1], args[2],
                     IF Len(args) >= 3 /\ ParseInt(args[3]).ok
                     THEN t + ParseInt(args[3]).n ELSE NoExp)
       ELSE IF cmd = <<"EXPIRE">>
       THEN IF Len(args) /= 2 \/ ~ParseInt(args[2]).ok THEN skip
            ELSE expireWithoutLogging(d, t, args[1], ParseInt(args[2]).n)
       ELSE skip

\* LoadAOF: replay the lines in file order; a line that does not parse ends it.
\* r is the outcome so far: the map, the LogCommand calls made and whether
\* triggerWrite was called
RECURSIVE replayFrom(_, _, _, _)
replayFrom(r, t, lines, i) ==
    IF i > Len(lines) THEN r
    ELSE LET p == parseCommandLine(lines[i])
             o == replayCommand(r.data, t, p.parts)
         IN IF lines[i] = <<>> THEN replayFrom(r, t, lines, i + 1)
            ELSE IF p.err THEN r
            ELSE IF p.parts = <<>> THEN replayFrom(r, t, lines, i + 1)
            ELSE replayFrom([o EXCEPT !.log = r.log \o o.log, !.trig = r.trig \/ o.trig],
                            t, lines, i + 1)
LoadAOF(d, t, lines) == replayFrom(Out(d, ErrNone, NoRet, NoLog, FALSE, {}), t, lines, 1)

(* ------------------------------------------------------- resp: the codec *)
\* the RESP type bytes
SimpleString == "+"
Error        == "-"
Integer      == ":"
BulkString   == "$"
Array        == "*"

\* resp.Value{Type, Str, Int, Array, Null}, the fields not given being zero as
\* NewSimpleString .. RespValue(Array, <<>>, 0, <<>>, TRUE) leave them; ZeroValue is Value{}
RespValue(t, s, i, a, n) == [Type |-> t, Str |-> s, Int |-> i, Array |-> a, Null |-> n]
ZeroValue == RespValue("", <<>>, 0, <<>>, FALSE)

CRLF == <<"\r", "\n">>

\* resp.Marshal: the bytes it returns for v
RespMarshal(v) ==
    CASE v.Type = SimpleString -> <<"+">> \o v.Str \o CRLF
      [] v.Type = Error        -> <<"+">> \o v.Str \o CRLF
      [] v.Type = Integer      -> <<"+">> \o Itoa(v.Int) \o CRLF
      [] v.Type = BulkString   -> IF v.Null THEN <<"$", "-", "1">> \o CRLF
                                  ELSE <<"$">> \o Itoa(Len(v.Str)) \o CRLF \o v.Str \o CRLF
      [] v.Type = Array        -> IF v.Null THEN <<"*", "-", "1">> \o CRLF
                                  ELSE <<"*">> \o Itoa(Len(v.Array)) \o CRLF
      [] OTHER                 -> <<>>

ErrEOF           == "EOF"
ErrInvalidSyntax == "invalid RESP syntax"

\* what a parsing function returns: the value, the error, the unread bytes
Parsed(v, e, rest) == [val |-> v, err |-> e, rest |-> rest]

\* readLine: ReadString('\n'), then the line without its final \r\n
readLine(bytes) ==
    IF \A i \in 1..Len(bytes) : bytes[i] /= "\n"
    THEN [line |-> <<>>, err |-> ErrEOF, rest |-> <<>>]
    ELSE LET n    == CHOOSE i \in 1..Len(bytes) :
                        bytes[i] = "\n" /\ \A j \in 1..(i - 1) : bytes[j] /= "\n"
             rest == SubSeq(bytes, n + 1, Len(bytes))
         IN IF n < 2 \/ bytes[n - 1] /= "\r"
            THEN [line |-> <<>>, err |-> ErrInvalidSyntax, rest |-> rest]
            ELSE [line |-> SubSeq(bytes, 1, n - 2), err |-> ErrNone, rest |-> rest]

\* strconv.Atoi and strconv.ParseInt(s, 10, 64): an optional sign, then digits
RECURSIVE DecimalValue(_)
DecimalValue(s) ==
    IF s = <<>> THEN 0
    ELSE 10 * DecimalValue(SubSeq(s, 1, Len(s) - 1))
            + (CHOOSE n \in 0..9 : ToString(n) = s[Len(s)])
Atoi(s) ==
    LET signed == s /= <<>> /\ s[1] \in {"-", "+"}
        body   == IF signed THEN Tail(s) ELSE s
    IN IF body = <<>> \/ \E i \in 1..Len(body) : body[i] \notin {ToString(d) : d \in 0..9}
       THEN [ok |-> FALSE, n |-> 0]
       ELSE [ok |-> TRUE,
             n |-> IF signed /\ s[1] = "-" THEN 0 - DecimalValue(body) ELSE DecimalValue(body)]

\* resp.Parse with parseSimpleString, parseError, parseInteger, parseBulkString
\* and parseArray; parseItems is the loop of parseArray
RECURSIVE Parse(_), parseItems(_, _, _)
Parse(bytes) ==
    IF bytes = <<>> THEN Parsed(ZeroValue, ErrEOF, <<>>)
    ELSE LET b  == bytes[1]
             l  == readLine(IF b \in {SimpleString, Error, Integer, BulkString, Array}
                            THEN Tail(bytes) ELSE bytes)
             n  == Atoi(l.line)
         IN IF l.err /= ErrNone THEN Parsed(ZeroValue, l.err, l.rest)
            ELSE IF b = Error THEN Parsed(RespValue(Error, l.line, 0, <<>>, FALSE), ErrNone, l.rest)
            ELSE IF b = Integer
            THEN IF n.ok THEN Parsed(RespValue(Integer, <<>>, n.n, <<>>, FALSE), ErrNone, l.rest)
                 ELSE Parsed(ZeroValue, ErrInvalidSyntax, l.rest)
            ELSE IF b = BulkString
            THEN IF ~n.ok THEN Parsed(ZeroValue, ErrInvalidSyntax, l.rest)
                 ELSE IF n.n = 0 - 1 THEN Parsed(RespValue(BulkString, <<>>, 0, <<>>, TRUE), ErrNone, l.rest)
                 ELSE IF n.n < 0 THEN Parsed(ZeroValue, ErrInvalidSyntax, l.rest)
                 ELSE IF Len(l.rest) < n.n + 2 THEN Parsed(ZeroValue, ErrEOF, <<>>)
                 ELSE Parsed(RespValue(BulkString, SubSeq(l.rest, 1, n.n), 0, <<>>, FALSE), ErrNone,
                             SubSeq(l.rest, n.n + 3, Len(l.rest)))
            ELSE IF b = Array
            THEN IF ~n.ok THEN Parsed(ZeroValue, ErrInvalidSyntax, l.rest)
                 ELSE IF n.n = 0 - 1 THEN Parsed(RespValue(Array, <<>>, 0, <<>>, TRUE), ErrNone, l.rest)
                 ELSE IF n.n < 0 THEN Parsed(ZeroValue, ErrInvalidSyntax, l.rest)
                 ELSE parseItems(l.rest, n.n, <<>>)
            ELSE Parsed(RespValue(SimpleString, l.line, 0, <<>>, FALSE), ErrNone, l.rest)
parseItems(bytes, count, items) ==
    IF Len(items) = count THEN Parsed(RespValue(Array, <<>>, 0, items, FALSE), ErrNone, bytes)
    ELSE LET item == Parse(bytes)
         IN IF item.err /= ErrNone THEN Parsed(ZeroValue, item.err, item.rest)
            ELSE parseItems(item.rest, count, Append(items, item.val))

\* a connection with nothing on it
NoWire == [pc |-> "idle", val |-> ZeroValue, bytes |-> <<>>, parsed |-> ZeroValue, err |-> ErrNone]

\* the list commands and the hash commands, as the registry names them
ListOps == {"LPUSH", "RPUSH", "LPOP", "RPOP", "LRANGE", "LLEN", "LINDEX", "LSET", "LREM", "LTRIM"}
HashOps == {"HSET", "HGET", "HDEL", "HGETALL", "HEXISTS", "HLEN", "HKEYS", "HVALS"}

\* list := val.Data.([]string) and hashMap := val.Data.(map[string]string): every
\* list and hash method makes this unchecked assertion once it has found the key
\* unexpired and of its kind, and the assertion panics on json-decoded Data
AssertionPanics(d, t, op, key) ==
    /\ key \in DOMAIN d
    /\ ~Expired(d[key], t)
    /\ d[key].Json
    /\ \/ op \in ListOps /\ d[key].Type = TypeList
       \/ op \in HashOps /\ d[key].Type = TypeHash

\* the commands whose store method takes db.lock.Lock()
LockOps == {"SET", "DEL", "EXPIRE", "LPUSH", "RPUSH", "LPOP", "RPOP", "LSET", "LREM",
            "LTRIM", "HSET", "HDEL"}

\* A file: missing, or its content. complete is FALSE between the O_TRUNC open
\* of os.WriteFile and its write; body is the marshalled map once written.
NoFile    == [exists |-> FALSE, complete |-> FALSE, body |-> EmptyMap]
Truncated == [exists |-> TRUE, complete |-> FALSE, body |-> EmptyMap]
Written(bytes) == [exists |-> TRUE, complete |-> TRUE, body |-> bytes]

\* the goroutines that call save(): writeLoop, and a caller of Flush (the FLUSH
\* command, the text EXIT command, the shutdown path of main)
Savers == {"writeLoop", "Flush"}
IdleSaver == [pc |-> "idle", bytes |-> EmptyMap, fd |-> "none"]
\* saver p is inside save(), between db.lock.RLock() and the deferred RUnlock
\* db.lock is held for writing by a connection that is inside a list push
WriteLocked == wire.pc = "locked"
InSave(p) == savers[p].pc \in {"marshalled", "opened", "written"}
ReadLocked == \E p \in Savers : InSave(p)

\* the snapshot writer started before the load (a fault C7_RecoveryFirst must catch)
BootOrderWriterFirst == <<"writeLoop", "load", "LoadAOF", "expirationChecker", "Listen">>
\* NewFlexDB: load, LoadAOF, go writeLoop, go expirationChecker; then main: Listen
\* and the accept loop
BootOrder == <<"load", "LoadAOF", "writeLoop", "expirationChecker", "Listen">>
BootSteps == {BootOrder[i] : i \in 1..Len(BootOrder)}
BootDone == started = BootSteps

\* a server that went through startup with no file on disk
Serving ==
    /\ disk = [snap |-> NoFile, tmp |-> NoFile]
    /\ savers = [p \in Savers |-> IdleSaver]
    /\ started = BootSteps
    /\ restarts = 0
    /\ acked = EmptyMap
    /\ wire = NoWire

(* ------------------------------------------------------------ actions *)
NoReply == [op |-> "", key |-> <<>>, err |-> ErrNone, ret |-> NoRet]

\* One store operation, from taking db.lock to returning: the map, the AOF and
\* the signal queue change as the outcome o says, and the caller gets the reply.
\* A panic in the goroutine of a connection: nothing recovers it, the process
\* exits, and what it held in memory is gone; the files stay
Crash(op, key) ==
    /\ data' = EmptyMap
    /\ reply' = [op |-> op, key |-> key, err |-> ErrPanic, ret |-> NoRet]
    /\ aof' = [aof EXCEPT !.buf = <<>>]
    /\ writeQueue' = 0
    /\ pending' = [k \in Keys |-> 0]
    /\ sweep' = {}
    /\ savers' = [p \in Savers |-> IdleSaver]
    /\ started' = {}
    /\ UNCHANGED <<now, disk, restarts, acked, wire>>

Step(op, key, o) ==
    /\ "Listen" \in started
    /\ ~WriteLocked
    /\ op \in LockOps => ~ReadLocked
    /\ IF AssertionPanics(data, now, op, key)
       THEN Crash(op, key)
       ELSE /\ (o.log /= NoLog /\ aof.enabled) => aof.mu = ""
            /\ (o.log /= NoLog /\ aof.enabled) => Len(aof.buf) + Len(aof.file) < MaxAof
            /\ \A k \in o.spawn : pending[k] < MaxPending
            /\ data' = o.data
            /\ reply' = [op |-> op, key |-> key, err |-> o.err, ret |-> o.ret]
            /\ aof' = IF o.log /= NoLog /\ aof.enabled
                      THEN LogCommand(aof, o.log[1].cmd, o.log[1].args) ELSE aof
            /\ writeQueue' = IF o.trig THEN triggerWrite(writeQueue) ELSE writeQueue
            /\ pending' = [k \in Keys |-> IF k \in o.spawn THEN pending[k] + 1 ELSE pending[k]]
            /\ UNCHANGED <<now, sweep>>
            /\ UNCHANGED diskVars

\* len(list) after a push, kept within MaxLen
PushFits(key, values) ==
    (key \in DOMAIN data /\ ~Expired(data[key], now) /\ data[key].Type = TypeList)
        => Len(data[key].List) + Len(values) <= MaxLen

ClientSet ==
    \E k \in Keys, v \in Vals, e \in {NoExp} \cup {now + dd : dd \in Durs} :
        Step("SET", k, Set(data, k, v, e))
ClientGet    == \E k \in Keys : Step("GET", k, Get(data, now, k))
ClientDelete == \E k \in Keys : Step("DEL", k, Delete(data, k))
ClientAll    == Step("ALL", <<>>, All(data, now))
ClientExpire == \E k \in Keys, dd \in Durs : Step("EXPIRE", k, Expire(data, now, k, dd))
ClientTTL    == \E k \in Keys : Step("TTL", k, TTL(data, now, k))

ClientLPush ==
    \E k \in Keys, vs \in SeqsUpTo(Vals, MaxLen) :
        PushFits(k, vs) /\ Step("LPUSH", k, LPush(data, now, k, vs))
ClientRPush ==
    \E k \in Keys, vs \in SeqsUpTo(Vals, MaxLen) :
        PushFits(k, vs) /\ Step("RPUSH", k, RPush(data, now, k, vs))
ClientLPop   == \E k \in Keys : Step("LPOP", k, LPop(data, now, k))
ClientRPop   == \E k \in Keys : Step("RPOP", k, RPop(data, now, k))
ClientLRange ==
    \E k \in Keys, start \in Idx, stop \in Idx :
        Step("LRANGE", k, LRange(data, now, k, start, stop))
ClientLLen   == \E k \in Keys : Step("LLEN", k, LLen(data, now, k))
ClientLIndex == \E k \in Keys, i \in Idx : Step("LINDEX", k, LIndex(data, now, k, i))
ClientLSet   ==
    \E k \in Keys, i \in Idx, v \in Vals : Step("LSET", k, LSet(data, now, k, i, v))
ClientLRem   ==
    \E k \in Keys, c \in Idx, v \in Vals : Step("LREM", k, LRem(data, now, k, c, v))
ClientLTrim  ==
    \E k \in Keys, start \in Idx, stop \in Idx :
        Step("LTRIM", k, LTrim(data, now, k, start, stop))

ClientHSet ==
    \E k \in Keys, f \in Fields, v \in Vals : Step("HSET", k, HSet(data, now, k, f, v))
ClientHGet    == \E k \in Keys, f \in Fields : Step("HGET", k, HGet(data, now, k, f))
ClientHDel    ==
    \E k \in Keys, fs \in SeqsUpTo(Fields, 2) : Step("HDEL", k, HDel(data, now, k, fs))
ClientHGetAll == \E k \in Keys : Step("HGETALL", k, HGetAll(data, now, k))
ClientHExists == \E k \in Keys, f \in Fields : Step("HEXISTS", k, HExists(data, now, k, f))
ClientHLen    == \E k \in Keys : Step("HLEN", k, HLen(data, now, k))
ClientHKeys   == \E k \in Keys, o \in Orders : Step("HKEYS", k, HKeys(data, now, k, o))
ClientHVals   == \E k \in Keys, o \in Orders : Step("HVALS", k, HVals(data, now, k, o))

\* the clock
Tick ==
    /\ now < MaxTime
    /\ now' = now + 1
    /\ UNCHANGED <<data, writeQueue, aof, reply, sweep, pending>>
    /\ UNCHANGED diskVars

\* go func() { db.lock.Lock(); delete(db.data, key); db.lock.Unlock(); db.triggerWrite() }()
DeferredDelete ==
    \E k \in Keys :
        /\ pending[k] > 0
        /\ ~ReadLocked
        /\ data' = MapDelete(data, k)
        /\ pending' = [pending EXCEPT ![k] = @ - 1]
        /\ writeQueue' = triggerWrite(writeQueue)
        /\ UNCHANGED <<now, aof, reply, sweep>>
        /\ UNCHANGED diskVars

\* expirationChecker, first locked section: collect the expired keys under RLock
SweepCollect ==
    /\ "expirationChecker" \in started
    /\ sweep = {}
    /\ sweep' = {k \in DOMAIN data : Expired(data[k], now)}
    /\ sweep' /= {}
    /\ UNCHANGED <<data, now, writeQueue, aof, reply, pending>>
    /\ UNCHANGED diskVars

\* expirationChecker, second locked section: delete them under Lock, then signal
SweepDelete ==
    /\ sweep /= {}
    /\ ~ReadLocked
    /\ data' = [k \in (DOMAIN data) \ sweep |-> data[k]]
    /\ sweep' = {}
    /\ writeQueue' = triggerWrite(writeQueue)
    /\ UNCHANGED <<now, aof, reply, pending>>
    /\ UNCHANGED diskVars

\* backgroundSync: started by NewAOFPersistence under AOFSyncEverySecond
BackgroundSync ==
    /\ aof.enabled /\ aof.syncPolicy = AOFSyncEverySecond
    /\ aof.mu = ""
    /\ aof' = sync(aof)
    /\ UNCHANGED <<data, now, writeQueue, reply, sweep, pending>>
    /\ UNCHANGED diskVars

storeVars == <<data, now, writeQueue, aof, reply, sweep, pending>>

\* NewFlexDB and main, one startup step at a time in the order of BootOrder
Boot ==
    /\ started /= BootSteps
    /\ LET step == BootOrder[Cardinality(started) + 1]
       IN /\ step = "load" => ~ReadLocked
          /\ started' = started \cup {step}
          /\ IF step = "load"
             THEN data' \in {load(data, disk.snap, now), loadConverting(data, disk.snap, now)}
             ELSE IF step = "LoadAOF" /\ aof.enabled
             THEN data' = LoadAOF(data, now, aof.file).data
             ELSE data' = data
          /\ LET r == LoadAOF(data, now, aof.file)
                 RECURSIVE logAll(_, _)
                 logAll(a, i) == IF i > Len(r.log) THEN a
                                 ELSE logAll(LogCommand(a, r.log[i].cmd, r.log[i].args), i + 1)
             IN IF step = "LoadAOF" /\ aof.enabled
                THEN /\ aof' = logAll(aof, 1)
                     /\ writeQueue' = IF r.trig THEN triggerWrite(writeQueue) ELSE writeQueue
                ELSE UNCHANGED <<writeQueue, aof>>
    /\ UNCHANGED <<now, reply, sweep, pending>>
    /\ UNCHANGED <<disk, savers, restarts, acked, wire>>

\* kill -9 of the serving process, and its restart: memory is gone (the map, the
\* bufio buffer of the AOF, the queue, the goroutines), the files stay
Kill ==
    /\ "Listen" \in started
    /\ restarts < MaxRestarts
    /\ restarts' = restarts + 1
    /\ acked' = data
    /\ data' = EmptyMap
    /\ writeQueue' = 0
    /\ aof' = [aof EXCEPT !.buf = <<>>, !.writer = "open"]
    /\ reply' = NoReply
    /\ sweep' = {}
    /\ pending' = [k \in Keys |-> 0]
    /\ savers' = [p \in Savers |-> IdleSaver]
    /\ started' = {}
    /\ UNCHANGED <<now, disk, wire>>

\* writeLoop draining the queue when it takes a signal (a fault
\* C31_OneSavePerWake must catch)
WriterWakeDraining ==
    /\ "writeLoop" \in started
    /\ savers["writeLoop"].pc = "idle"
    /\ writeQueue > 0
    /\ writeQueue' = 0
    /\ savers' = [savers EXCEPT !["writeLoop"].pc = "debounce"]
    /\ UNCHANGED <<data, now, aof, reply, sweep, pending, disk, started, restarts, acked, wire>>

\* writeLoop: case <-db.writeQueue, then wait for 500 ms or one more signal
WriterWake ==
    /\ "writeLoop" \in started
    /\ savers["writeLoop"].pc = "idle"
    /\ writeQueue > 0
    /\ writeQueue' = writeQueue - 1
    /\ savers' = [savers EXCEPT !["writeLoop"].pc = "debounce"]
    /\ UNCHANGED <<data, now, aof, reply, sweep, pending, disk, started, restarts, acked, wire>>

\* save, up to json.MarshalIndent: RLock, tempData, bytes
SaveBegin(p) ==
    /\ savers' = [savers EXCEPT ![p] = [pc |-> "marshalled", bytes |-> Marshal(data),
                                       fd |-> "none"]]
    /\ UNCHANGED <<data, now, aof, reply, sweep, pending, disk, started, restarts, acked, wire>>

\* writeLoop calls save: the ticker fired, or the debounce ended by its timer
\* or by a second signal
WriterSave ==
    /\ "writeLoop" \in started
    /\ \/ savers["writeLoop"].pc = "idle" /\ writeQueue' = writeQueue
       \/ savers["writeLoop"].pc = "debounce" /\ writeQueue' = writeQueue
       \/ savers["writeLoop"].pc = "debounce" /\ writeQueue > 0
             /\ writeQueue' = writeQueue - 1
    /\ SaveBegin("writeLoop")

\* Flush calls save: FLUSH, the text EXIT, or the shutdown path of main
FlushSave ==
    /\ "Listen" \in started
    /\ savers["Flush"].pc = "idle"
    /\ writeQueue' = writeQueue
    /\ SaveBegin("Flush")

\* os.WriteFile writing b into the file f its descriptor is on, from offset 0
Overwrite(f, b) ==
    IF f.complete /\ Size(b) < Size(f.body)
    THEN [exists |-> TRUE, complete |-> FALSE, body |-> b]
    ELSE Written(b)

\* os.WriteFile, the open: O_WRONLY|O_CREATE|O_TRUNC on db.file + ".tmp"
SaveOpen ==
    \E p \in Savers :
        /\ savers[p].pc = "marshalled"
        /\ disk' = [disk EXCEPT !.tmp = Truncated]
        /\ savers' = [savers EXCEPT ![p].pc = "opened", ![p].fd = "tmp"]
        /\ UNCHANGED <<storeVars, started, restarts, acked, wire>>

\* os.WriteFile, the write and the close: the bytes go to the file the
\* descriptor was opened on, whatever name it has by now
SaveWrite ==
    \E p \in Savers :
        /\ savers[p].pc = "opened"
        /\ disk' = IF savers[p].fd = "tmp"
                   THEN [disk EXCEPT !.tmp = Overwrite(@, savers[p].bytes)]
                   ELSE IF savers[p].fd = "snap"
                   THEN [disk EXCEPT !.snap = Overwrite(@, savers[p].bytes)]
                   ELSE disk
        /\ savers' = [savers EXCEPT ![p].pc = "written", ![p].fd = "none"]
        /\ UNCHANGED <<storeVars, started, restarts, acked, wire>>

\* os.Rename(tempFile, db.file), its error ignored, and the deferred RUnlock
SaveRename ==
    \E p \in Savers :
        /\ savers[p].pc = "written"
        /\ disk' = IF disk.tmp.exists
                   THEN [snap |-> disk.tmp, tmp |-> NoFile]
                   ELSE disk
        /\ savers' = [q \in Savers |->
                         IF q = p THEN IdleSaver
                         ELSE IF ~disk.tmp.exists THEN savers[q]
                         ELSE IF savers[q].fd = "tmp" THEN [savers[q] EXCEPT !.fd = "snap"]
                         ELSE IF savers[q].fd = "snap" THEN [savers[q] EXCEPT !.fd = "unlinked"]
                         ELSE savers[q]]
        /\ UNCHANGED <<storeVars, started, restarts, acked, wire>>

\* The server running on an empty store, AOF disabled (db.aof == nil)
Init ==
    /\ data = EmptyMap
    /\ now = 0
    /\ writeQueue = 0
    /\ aof = NoAOF
    /\ reply = NoReply
    /\ sweep = {}
    /\ pending = [k \in Keys |-> 0]
    /\ Serving

ClientOp ==
    \/ ClientSet \/ ClientGet \/ ClientDelete \/ ClientAll \/ ClientExpire \/ ClientTTL
    \/ ClientLPush \/ ClientRPush \/ ClientLPop \/ ClientRPop \/ ClientLRange
    \/ ClientLLen \/ ClientLIndex \/ ClientLSet \/ ClientLRem \/ ClientLTrim
    \/ ClientHSet \/ ClientHGet \/ ClientHDel \/ ClientHGetAll \/ ClientHExists
    \/ ClientHLen \/ ClientHKeys \/ ClientHVals

Next ==
    \/ ClientOp
    \/ Tick \/ DeferredDelete \/ SweepCollect \/ SweepDelete

\* the store under every interleaving of client commands, the clock, the
\* sweeper and the deferred deletions
Spec == Init /\ [][Next]_vars

\* The server running on an empty store with the AOF enabled (WithAOF), under
\* each sync policy
InitAof ==
    /\ data = EmptyMap
    /\ now = 0
    /\ writeQueue = 0
    /\ aof \in {NewAOFPersistence(p) :
                   p \in {AOFSyncAlways, AOFSyncEverySecond, AOFSyncNever}}
    /\ reply = NoReply
    /\ sweep = {}
    /\ pending = [k \in Keys |-> 0]
    /\ Serving

NextAof ==
    \/ ClientOp
    \/ BackgroundSync

\* client commands against the store and its command log, the clock standing still
SpecAof == InitAof /\ [][NextAof]_vars

\* what a start can find on disk: no snapshot or one a save wrote, and an AOF
\* of lines as RewriteAOF ("SET k v") and LogCommand ("LPUSHka") write them
SnapFiles == {NoFile, Written(Marshal([k \in Keys |-> StringValue(<<"a">>, NoExp)]))}
AofLines ==
    {<<"SET", " ">> \o k \o <<" ">> \o <<"b">> : k \in Keys}
        \cup {<<"SET", " ">> \o k \o <<" ">> \o <<"b">> \o <<" ">> \o Itoa(1) : k \in Keys}
        \cup {FormatLine("LPUSH", <<k, <<"a">>>>) : k \in Keys}
        \cup {<<"FLUSH">>}
AofFiles == SeqsUpTo(AofLines, MaxAof)

\* The process at the start of NewFlexDB, AOF enabled under AOFSyncAlways
InitDisk ==
    /\ data = EmptyMap
    /\ now = 0
    /\ writeQueue = 0
    /\ \E f \in AofFiles :
          aof = [NewAOFPersistence(AOFSyncAlways) EXCEPT !.file = f, !.synced = Len(f)]
    /\ reply = NoReply
    /\ sweep = {}
    /\ pending = [k \in Keys |-> 0]
    /\ disk \in [snap : SnapFiles, tmp : {NoFile}]
    /\ savers = [p \in Savers |-> IdleSaver]
    /\ started = {}
    /\ restarts = 0
    /\ acked = EmptyMap
    /\ wire = NoWire

NextDisk ==
    \/ Boot \/ Kill
    \/ ClientSet \/ ClientGet \/ ClientDelete \/ ClientExpire
    \/ WriterWake \/ WriterSave \/ FlushSave
    \/ SaveOpen \/ SaveWrite \/ SaveRename

\* startup, string commands, the snapshot writer, Flush and a process kill
SpecDisk == InitDisk /\ [][NextDisk]_vars

(* ---------------------------------------------------------------------- *)
(* List commands on longer lists: the store holds one list of up to       *)
(* MaxList elements (as RPUSH builds it) and clients measure and cut it.  *)
(* ---------------------------------------------------------------------- *)
ListVals == Vals \cup {<<"c">>}

InitList ==
    /\ data \in {MapPut(EmptyMap, k, ListValue(l, NoExp)) :
                    k \in Keys, l \in SeqsUpTo(ListVals, MaxList)}
    /\ now = 0
    /\ writeQueue = 0
    /\ aof = NoAOF
    /\ reply = NoReply
    /\ sweep = {}
    /\ pending = [k \in Keys |-> 0]
    /\ Serving

NextList == ClientLRem \/ ClientLLen \/ ClientLPop \/ ClientRPop

SpecList == InitList /\ [][NextList]_vars

(* ---------------------------------------------------------------------- *)
(* Snapshot round trip: a serving process, the AOF off, whose store holds *)
(* what string, list and hash writes left; saves through Flush, a kill of *)
(* the process and its restart, and commands on the reloaded keys.        *)
(* ---------------------------------------------------------------------- *)
\* the hashes HSET builds, and the values SET, RPUSH, HSET and EXPIRE leave
Hashes == UNION {[D -> Vals] : D \in (SUBSET Fields) \ {{}}}
StoredValues ==
    LET exps == {NoExp} \cup Durs
    IN {StringValue(v, e) : v \in Vals, e \in exps}
          \cup {ListValue(l, e) : l \in SeqsUpTo(Vals, MaxLen), e \in exps}
          \cup {HashValue(h, e) : h \in Hashes, e \in exps}

InitReload ==
    /\ data \in {EmptyMap} \cup {MapPut(EmptyMap, k, v) : k \in Keys, v \in StoredValues}
    /\ now = 0
    /\ writeQueue = 0
    /\ aof = NoAOF
    /\ reply = NoReply
    /\ sweep = {}
    /\ pending = [k \in Keys |-> 0]
    /\ Serving

NextReload ==
    \/ Boot \/ Kill \/ Tick
    \/ ClientExpire \/ ClientLLen \/ ClientHLen
    \/ FlushSave \/ SaveOpen \/ SaveWrite \/ SaveRename

SpecReload == InitReload /\ [][NextReload]_vars

(* ---------------------------------------------------------------------- *)
(* The codec on its own: a well-formed value is marshalled onto the wire  *)
(* and the bytes are parsed back.                                         *)
(* ---------------------------------------------------------------------- *)
RespChars   == {"a", "1"}
RespStrings == {<<>>} \cup SeqsUpTo(RespChars, MaxRespLen)
BulkStrings == RespStrings \cup {CRLF}
RespInts    == (0 - MaxRespInt) .. MaxRespInt
Scalars ==
    {RespValue(SimpleString, s, 0, <<>>, FALSE) : s \in RespStrings}
        \cup {RespValue(Error, s, 0, <<>>, FALSE) : s \in RespStrings}
        \cup {RespValue(Integer, <<>>, i, <<>>, FALSE) : i \in RespInts}
        \cup {RespValue(BulkString, s, 0, <<>>, FALSE) : s \in BulkStrings}
        \cup {RespValue(BulkString, <<>>, 0, <<>>, TRUE)}
RespItems ==
    {RespValue(BulkString, <<"a">>, 0, <<>>, FALSE),
     RespValue(BulkString, <<>>, 0, <<>>, FALSE),
     RespValue(Integer, <<>>, 1, <<>>, FALSE),
     RespValue(SimpleString, <<"a">>, 0, <<>>, FALSE),
     RespValue(BulkString, <<>>, 0, <<>>, TRUE),
     RespValue(Array, <<>>, 0, <<>>, FALSE),
     RespValue(Array, <<>>, 0, <<RespValue(BulkString, <<"a">>, 0, <<>>, FALSE)>>, FALSE),
     RespValue(Array, <<>>, 0, <<>>, TRUE)}
WellFormed ==
    Scalars \cup {RespValue(Array, <<>>, 0, <<>>, TRUE), RespValue(Array, <<>>, 0, <<>>, FALSE)}
        \cup {RespValue(Array, <<>>, 0, items, FALSE) : items \in SeqsUpTo(RespItems, MaxRespLen)}

\* writer.Write(resp.Marshal(result))
WireMarshal ==
    /\ wire.pc = "value"
    /\ wire' = [wire EXCEPT !.pc = "marshalled", !.bytes = RespMarshal(wire.val)]
    /\ UNCHANGED <<storeVars, disk, savers, started, restarts, acked>>

\* value, err := resp.Parse(reader) on the bytes written
WireParse ==
    /\ wire.pc = "marshalled"
    /\ LET p == Parse(wire.bytes)
       IN wire' = [wire EXCEPT !.pc = "parsed", !.parsed = p.val, !.err = p.err]
    /\ UNCHANGED <<storeVars, disk, savers, started, restarts, acked>>

InitResp ==
    /\ data = EmptyMap
    /\ now = 0
    /\ writeQueue = 0
    /\ aof = NoAOF
    /\ reply = NoReply
    /\ sweep = {}
    /\ pending = [k \in Keys |-> 0]
    /\ disk = [snap |-> NoFile, tmp |-> NoFile]
    /\ savers = [p \in Savers |-> IdleSaver]
    /\ started = BootSteps
    /\ restarts = 0
    /\ acked = EmptyMap
    /\ \E v \in WellFormed : wire = [NoWire EXCEPT !.pc = "value", !.val = v]

NextResp == WireMarshal \/ WireParse

SpecResp == InitResp /\ [][NextResp]_vars

(* -------------------------------------------------- connection dispatch *)
\* first bytes a client may send: the five RESP tags and two letters
ConnBytes == {"+", "-", ":", "$", "*", "S", "G"}

\* protocol.DetectProtocol: Peek(1) leaves the byte in the reader; EOF at the
\* peek and any byte that is not a RESP tag give the text protocol
DetectProtocol(stream) ==
    IF stream = <<>> THEN "text"
    ELSE IF Head(stream) \in {SimpleString, Error, Integer, BulkString, Array} THEN "RESP"
    ELSE "text"

\* go handler.HandleConnection(conn): the accept loop starts the handler of
\* handler.go, which serves the text protocol on its own bufio.NewReader(conn)
HandleConnection ==
    /\ wire.pc = "accepted"
    /\ wire' = [wire EXCEPT !.pc = "handling", !.handler = "text", !.reader = wire.stream]
    /\ UNCHANGED <<storeVars, disk, savers, started, restarts, acked>>

\* the handler's reader delivers the next byte of the connection
ConnRead ==
    /\ wire.pc = "handling"
    /\ wire.reader /= <<>>
    /\ wire' = [wire EXCEPT !.reader = Tail(wire.reader), !.read = Append(wire.read, Head(wire.reader))]
    /\ UNCHANGED <<storeVars, disk, savers, started, restarts, acked>>

InitConn ==
    /\ data = EmptyMap
    /\ now = 0
    /\ writeQueue = 0
    /\ aof = NoAOF
    /\ reply = NoReply
    /\ sweep = {}
    /\ pending = [k \in Keys |-> 0]
    /\ disk = [snap |-> NoFile, tmp |-> NoFile]
    /\ savers = [p \in Savers |-> IdleSaver]
    /\ started = BootSteps
    /\ restarts = 0
    /\ acked = EmptyMap
    /\ \E s \in {<<>>} \cup SeqsUpTo(ConnBytes, MaxRespLen) :
          wire = [pc |-> "accepted", stream |-> s, handler |-> "none", reader |-> <<>>, read |-> <<>>]

NextConn == HandleConnection \/ ConnRead

SpecConn == InitConn /\ [][NextConn]_vars

(* ------------------------------------------------ command handlers: replies *)
\* ttlCommand: the RESP reply built from what FlexDB.TTL returned;
\* int64(duration.Seconds()) truncates the seconds toward zero
ttlCommand(o) ==
    IF o.err /= ErrNone
    THEN RespValue(SimpleString, <<o.err>>, 0, <<>>, FALSE)
    ELSE LET r == o.ret
             seconds == IF r.int > 0 /\ r.ns < 0 THEN r.int - 1
                        ELSE IF r.int < 0 /\ r.ns > 0 THEN r.int + 1
                        ELSE r.int
         IN RespValue(Integer, <<>>, seconds, <<>>, FALSE)

\* case "TTL" of the text handler: "-1\n" on an error, otherwise
\* fmt.Sprintf("%.0f\n", duration.Seconds()), which prints -1ns as "-0"
ttlText(o) ==
    IF o.err /= ErrNone THEN <<"-", "1", "\n">>
    ELSE IF o.ret.int = 0 /\ o.ret.ns < 0 THEN <<"-", "0", "\n">>
    ELSE Itoa(o.ret.int) \o <<"\n">>

\* fmt.Sprintf("%v", val) of what FlexDB.Get returned: the string itself, a
\* []string as [a b], a map[string]string as map[f:a g:b] in key order
RECURSIVE Sprint(_)
Sprint(r) ==
    CASE r.kind = "list" ->
            IF r.list = <<>> THEN <<"[", "]">>
            ELSE IF Len(r.list) = 1 THEN <<"[">> \o r.list[1] \o <<"]">>
            ELSE <<"[">> \o r.list[1] \o <<" ">> \o Tail(Sprint(RetList(Tail(r.list))))
      [] r.kind = "hash" ->
            LET fs == DOMAIN r.hash
                pair(f) == f \o <<":">> \o r.hash[f]
            IN IF fs = {} THEN <<"map[", "]">>
               ELSE IF fs = Fields THEN <<"map[">> \o pair(<<"f">>) \o <<" ">> \o pair(<<"g">>) \o <<"]">>
               ELSE <<"map[">> \o pair(CHOOSE f \in fs : TRUE) \o <<"]">>
      [] OTHER -> r.str

\* getCommand: the RESP reply built from what FlexDB.Get returned
getCommand(o) ==
    IF o.err /= ErrNone
    THEN RespValue(Error, <<o.err>>, 0, <<>>, FALSE)
    ELSE RespValue(BulkString, Sprint(o.ret), 0, <<>>, FALSE)

\* case "GET" of the text handler
getText(o) ==
    IF o.err /= ErrNone THEN <<"(nil)", "\n">>
    ELSE Sprint(o.ret) \o <<"\n">>

(* ------------------------------------------------------ aof.go: RewriteAOF *)
\* values the store holds when a rewrite runs, one of them with a space in it
RewriteValues ==
    LET exps == {NoExp} \cup Durs
    IN {StringValue(v, e) : v \in Vals \cup {<<"a", " ", "b">>}, e \in exps}
          \cup {ListValue(l, e) : l \in SeqsUpTo(Vals, MaxLen), e \in exps}

\* aof.mu.Lock(); defer aof.mu.Unlock(): RewriteAOF takes the mutex on entry
\* and keeps it until it returns
RewriteLock ==
    /\ "Listen" \in started
    /\ aof.enabled /\ aof.rw = "idle" /\ aof.mu = ""
    /\ aof' = [aof EXCEPT !.mu = "RewriteAOF", !.rw = "create"]
    /\ UNCHANGED <<data, now, writeQueue, reply, sweep, pending>>
    /\ UNCHANGED diskVars

\* os.Create(tempFile); snapshot := aof.db.All()
RewriteSnapshot ==
    /\ aof.rw = "create"
    /\ ~WriteLocked
    /\ aof' = [aof EXCEPT !.rw = "dump", !.tmp = <<>>, !.snapshot = All(data, now).ret.all]
    /\ UNCHANGED <<data, now, writeQueue, reply, sweep, pending>>
    /\ UNCHANGED diskVars

\* fmt.Sprintf("SET %s %v%s\n", key, value, ttlArg), ttlArg being
\* fmt.Sprintf(" %d", int(ttl.Seconds())) if err == nil && ttl > 0
RewriteLine(key, value, ttl) ==
    <<"SET", " ">> \o key \o <<" ">> \o Sprint(value)
        \o (IF ttl.err = ErrNone /\ (ttl.ret.int > 0 \/ (ttl.ret.int = 0 /\ ttl.ret.ns > 0))
            THEN <<" ">> \o Itoa(ttl.ret.int) ELSE <<>>)

\* one round of for key, value := range snapshot: read the TTL, write the line
RewriteKey ==
    /\ aof.rw = "dump"
    /\ ~WriteLocked
    /\ \E key \in DOMAIN aof.snapshot :
          aof' = [aof EXCEPT
                    !.tmp = Append(@, RewriteLine(key, aof.snapshot[key], TTL(data, now, key))),
                    !.snapshot = MapDelete(@, key)]
    /\ UNCHANGED <<data, now, writeQueue, reply, sweep, pending>>
    /\ UNCHANGED diskVars

\* the loop is over: flush and fsync the temporary file, aof.sync(), close,
\* os.Rename(tempFile, aof.filePath), reopen, and the deferred Unlock
RewriteSwap ==
    /\ aof.rw = "dump"
    /\ DOMAIN aof.snapshot = {}
    /\ aof' = [aof EXCEPT !.file = aof.tmp, !.buf = <<>>, !.synced = Len(aof.tmp),
                          !.tmp = <<>>, !.rw = "idle", !.mu = "", !.writer = "open"]
    /\ UNCHANGED <<data, now, writeQueue, reply, sweep, pending>>
    /\ UNCHANGED diskVars

\* RewriteAOF returning an error: os.Create fails, or a write, the Flush or
\* the Sync of the temporary file fails (the live file is untouched); or, after
\* aof.sync() and aof.file.Close(), os.Rename or the reopening os.OpenFile
\* fails, and RewriteAOF returns with aof.file closed
RewriteFails ==
    /\ aof.mu = "RewriteAOF"
    /\ \E step \in {"create", "write", "rename", "reopen"} :
          /\ step = "create" => aof.rw = "create"
          /\ step = "write" => aof.rw = "dump"
          /\ step \in {"rename", "reopen"} => (aof.rw = "dump" /\ DOMAIN aof.snapshot = {})
          /\ LET synced == sync(aof)
                 closed == [synced EXCEPT !.writer = "closed"]
                 renamed == [closed EXCEPT !.file = aof.tmp, !.buf = <<>>, !.synced = Len(aof.tmp)]
                 after == CASE step = "rename" -> closed
                            [] step = "reopen" -> renamed
                            [] OTHER -> aof
             IN aof' = [after EXCEPT !.rw = "idle", !.mu = "", !.snapshot = EmptyAll,
                                     !.tmp = IF step = "reopen" THEN <<>> ELSE aof.tmp]
    /\ UNCHANGED <<data, now, writeQueue, reply, sweep, pending>>
    /\ UNCHANGED diskVars

\* a store with at most one key and the AOF enabled, at any time of the clock
InitRewrite ==
    /\ data \in {EmptyMap} \cup {MapPut(EmptyMap, k, v) : k \in Keys, v \in RewriteValues}
    /\ now \in 0..MaxTime
    /\ writeQueue = 0
    /\ aof \in {NewAOFPersistence(p) : p \in {AOFSyncAlways, AOFSyncEverySecond}}
    /\ reply = NoReply
    /\ sweep = {}
    /\ pending = [k \in Keys |-> 0]
    /\ Serving

NextRewrite ==
    \/ RewriteLock \/ RewriteSnapshot \/ RewriteKey \/ RewriteSwap \/ RewriteFails
    \/ ClientRPush \/ BackgroundSync

\* BGREWRITEAOF running beside clients that append to the log
SpecRewrite == InitRewrite /\ [][NextRewrite]_vars

\* the same process with the scheduling writeLoop relies on: once its select
\* can proceed to save (time.After fires after 500 ms, the ticker after 2 s,
\* RLock is granted), it does
SpecWriter == InitDisk /\ [][NextDisk]_vars /\ WF_vars(WriterSave)

(* ------------------------------------------------- main.go: the shutdown *)
\* <-sigChan; listener.Close(); database.Flush(), up to json.MarshalIndent in
\* save. acked keeps the store as it was when the signal was received; the
\* connections already accepted go on being served
ShutdownSignal ==
    /\ "Listen" \in started /\ "Shutdown" \notin started
    /\ savers["Flush"].pc = "idle"
    /\ started' = started \cup {"Shutdown"}
    /\ acked' = data
    /\ savers' = [savers EXCEPT !["Flush"] = [pc |-> "marshalled", bytes |-> Marshal(data),
                                             fd |-> "none"]]
    /\ UNCHANGED <<storeVars, disk, restarts, wire>>

\* Flush has returned and main returns: the process and its goroutines are gone
Exit ==
    /\ "Shutdown" \in started
    /\ savers["Flush"].pc = "idle"
    /\ started' = {"Exited"}
    /\ savers' = [p \in Savers |-> IdleSaver]
    /\ UNCHANGED <<storeVars, disk, restarts, acked, wire>>

NextShutdown ==
    \/ ClientSet
    \/ WriterWake \/ WriterSave
    \/ SaveOpen \/ SaveWrite \/ SaveRename
    \/ ShutdownSignal \/ Exit

\* a serving process with no file on disk, SET commands, the snapshot writer
\* and one interrupt
SpecShutdown == Init /\ [][NextShutdown]_vars

(* --------------------------------------------- command dispatch by name *)
\* Handler.executeCommand on a RESP connection: the upper-cased name is looked
\* up in the registry NewCommandRegistry built (registerCoreCommands only); o
\* is what the handler of the command does to the store once found
executeCommand(cmd, d, o) ==
    IF cmd \in {"PING", "SET", "GET", "DEL", "EXPIRE", "TTL", "ALL", "FLUSH", "BGREWRITEAOF", "HELP"}
    THEN o
    ELSE Out(d, "ERR unknown command", NoRet, NoLog, FALSE, {})

\* the text handler: switch cmd over the upper-cased first token, no registry
textCommand(cmd, d, o) ==
    IF cmd \in {"SET", "GET", "DEL", "EXPIRE", "TTL", "ALL", "FLUSH", "HELP", "EXIT"}
    THEN o
    ELSE Out(d, "Unknown command", NoRet, NoLog, FALSE, {})

(* ------------------------------- lists.go: RPush, one lock at a time *)
Conns == {"c1", "c2"}
\* wire when no connection is inside a push; applied is the record of the
\* logged pushes so far, in the order they changed the map
NoPush(applied) == [pc |-> "idle", conn |-> "", log |-> NoLog, trig |-> FALSE, applied |-> applied]

\* RPush up to its call of LogCommand: db.lock.Lock(), the type check and the
\* append to the list; the deferred Unlock is still to come
RPushLock ==
    /\ "Listen" \in started
    /\ wire.pc = "idle" /\ ~ReadLocked
    /\ Len(wire.applied) < MaxApplied
    /\ \E c \in Conns, k \in Keys, vs \in SeqsUpTo(Vals, MaxLen) :
          /\ PushFits(k, vs)
          /\ LET o == RPush(data, now, k, vs)
                 line == [conn |-> c, line |-> FormatLine(o.log[1].cmd, o.log[1].args)]
             IN /\ data' = o.data
                /\ reply' = [op |-> "RPUSH", key |-> k, err |-> o.err, ret |-> o.ret]
                /\ wire' = [pc |-> "locked", conn |-> c, log |-> o.log, trig |-> o.trig,
                            applied |-> IF o.log /= NoLog /\ aof.enabled
                                        THEN Append(wire.applied, line) ELSE wire.applied]
    /\ UNCHANGED <<now, writeQueue, aof, sweep, pending>>
    /\ UNCHANGED <<disk, savers, started, restarts, acked>>

\* the rest of RPush: db.aof.LogCommand, which waits for aof.mu, then
\* db.triggerWrite() and the deferred db.lock.Unlock()
RPushLog ==
    /\ wire.pc = "locked"
    /\ (wire.log /= NoLog /\ aof.enabled) => aof.mu = ""
    /\ aof' = IF wire.log /= NoLog /\ aof.enabled
              THEN LogCommand(aof, wire.log[1].cmd, wire.log[1].args) ELSE aof
    /\ writeQueue' = IF wire.trig THEN triggerWrite(writeQueue) ELSE writeQueue
    /\ wire' = NoPush(wire.applied)
    /\ UNCHANGED <<data, now, reply, sweep, pending>>
    /\ UNCHANGED <<disk, savers, started, restarts, acked>>

\* an empty store or one list, the AOF enabled, no push under way
InitLock ==
    /\ data \in {EmptyMap} \cup {MapPut(EmptyMap, k, ListValue(<<v>>, NoExp)) : k \in Keys, v \in Vals}
    /\ now = 0
    /\ writeQueue = 0
    /\ aof \in {NewAOFPersistence(p) : p \in {AOFSyncAlways, AOFSyncEverySecond}}
    /\ reply = NoReply
    /\ sweep = {}
    /\ pending = [k \in Keys |-> 0]
    /\ disk = [snap |-> NoFile, tmp |-> NoFile]
    /\ savers = [p \in Savers |-> IdleSaver]
    /\ started = BootSteps
    /\ restarts = 0
    /\ acked = EmptyMap
    /\ wire = NoPush(<<>>)

NextLock ==
    \/ RPushLock \/ RPushLog
    \/ RewriteLock \/ RewriteSnapshot \/ RewriteKey \/ RewriteSwap
    \/ BackgroundSync

\* connections pushing to lists beside BGREWRITEAOF and the background fsync,
\* every lock and mutex taken and released where the code does
SpecLock == InitLock /\ [][NextLock]_vars

(* ------------------------------------ resp_handler.go: the RESP loop *)
\* strings.ToUpper over the bytes of the codec alphabet, joined into a string
RECURSIVE ToUpper(_)
ToUpper(s) ==
    IF s = <<>> THEN ""
    ELSE (IF Head(s) = "a" THEN "A" ELSE Head(s)) \o ToUpper(Tail(s))

\* one round of the for loop of HandleRESPConnection after resp.Parse returned
\* value with no error: the replies written, the commands handed to
\* executeCommand, and whether the round ended in a runtime panic (index out of
\* range at value.Array[0])
HandleRESPFrame(value, d) ==
    LET error(msg) == RespValue(Error, <<msg>>, 0, <<>>, FALSE)
        result(cmd) ==
            LET o == executeCommand(ToUpper(cmd), d, Out(d, ErrNone, NoRet, NoLog, FALSE, {}))
            IN IF o.err /= ErrNone THEN error(o.err)
               ELSE RespValue(SimpleString, <<"OK">>, 0, <<>>, FALSE)
    IN IF value.Type /= Array \/ value.Null
       THEN [replies |-> <<error("ERR invalid command format")>>, ran |-> <<>>, panic |-> FALSE]
       ELSE IF Len(value.Array) = 0
       THEN [replies |-> <<error("ERR empty command")>>, ran |-> <<>>, panic |-> TRUE]
       ELSE LET first == value.Array[1]
                written == IF first.Type /= BulkString
                           THEN <<error("ERR command must be a bulk string")>> ELSE <<>>
            IN [replies |-> written \o <<result(first.Str)>>, ran |-> <<first.Str>>,
                panic |-> FALSE]

\* a RESP connection between two frames, n frames read so far
NoFrame(n) == [pc |-> "reading", val |-> ZeroValue, replies |-> <<>>, ran |-> <<>>, n |-> n]

\* value, err := resp.Parse(reader): the next frame, or an error and the return
RespRead ==
    /\ "Listen" \in started
    /\ wire.pc \in {"reading", "replied"}
    /\ wire.n < MaxFrames
    /\ \E v \in WellFormed, err \in {ErrNone, ErrEOF} :
          wire' = IF err /= ErrNone THEN [NoFrame(wire.n) EXCEPT !.pc = "closed"]
                  ELSE [NoFrame(wire.n + 1) EXCEPT !.pc = "decoded", !.val = v]
    /\ UNCHANGED <<storeVars, disk, savers, started, restarts, acked>>

\* the rest of the round; a panic in the goroutine of the connection ends the
\* process
RespHandle ==
    /\ wire.pc = "decoded"
    /\ LET r == HandleRESPFrame(wire.val, data)
       IN /\ wire' = [wire EXCEPT !.pc = IF r.panic THEN "panic" ELSE "replied",
                                  !.replies = r.replies, !.ran = r.ran]
          /\ started' = IF r.panic THEN {} ELSE started
    /\ UNCHANGED <<storeVars, disk, savers, restarts, acked>>

InitFrames ==
    /\ data = EmptyMap
    /\ now = 0
    /\ writeQueue = 0
    /\ aof = NoAOF
    /\ reply = NoReply
    /\ sweep = {}
    /\ pending = [k \in Keys |-> 0]
    /\ disk = [snap |-> NoFile, tmp |-> NoFile]
    /\ savers = [p \in Savers |-> IdleSaver]
    /\ started = BootSteps
    /\ restarts = 0
    /\ acked = EmptyMap
    /\ wire = NoFrame(0)

NextFrames == RespRead \/ RespHandle

\* one RESP connection sending frames the codec decodes
SpecFrames == InitFrames /\ [][NextFrames]_vars

(* ------------------------- results that share storage with db.data *)
\* what a connection holds between the return of a read and the marshalling of
\* its reply: the result as it was on return, what the same reference shows
\* now, and the storage of db.data it points into ("list": the backing array
\* of the list of key, from element off on; "map": the Go map of the hash of
\* key; "none": storage of its own)
NoResult ==
    [pc |-> "idle", op |-> "", key |-> <<>>, shares |-> "none", off |-> 0,
     returned |-> NoRet, seen |-> NoRet]

\* LRange returns list[start : stop+1], a slice of the stored backing array;
\* All puts v.Data itself into its result, the stored slice or map; HGetAll
\* copies the fields into a map it makes
Shares(op, d, t, key, o) ==
    CASE op = "LRANGE" -> IF o.ret.list /= <<>> THEN "list" ELSE "none"
      [] op = "ALL" -> IF key \notin DOMAIN o.ret.all THEN "none"
                       ELSE IF d[key].Type = TypeList THEN "list"
                       ELSE IF d[key].Type = TypeHash THEN "map"
                       ELSE "none"
      [] OTHER -> "none"

\* what the held reference shows once key has become d[key] by a write into
\* the storage it shares
View(held, d) ==
    CASE held.op = "LRANGE" ->
            RetList(SubSeq(d[held.key].List, held.off + 1, held.off + Len(held.returned.list)))
      [] held.op = "ALL" ->
            RetAll([held.returned.all EXCEPT ![held.key] = DataOf(d[held.key])])
      [] OTHER -> held.seen

\* LRange, All or HGetAll returns to the handler of a connection, db.lock
\* released by the deferred RUnlock
ReadReturns ==
    /\ "Listen" \in started
    /\ wire.pc = "idle"
    /\ \E op \in {"LRANGE", "ALL", "HGETALL"}, k \in Keys, start \in Idx, stop \in Idx :
          /\ op /= "LRANGE" => (start = 0 /\ stop = 0)
          /\ LET o == CASE op = "LRANGE" -> LRange(data, now, k, start, stop)
                        [] op = "ALL" -> All(data, now)
                        [] OTHER -> HGetAll(data, now, k)
                 off == IF op = "LRANGE" /\ o.ret.list /= <<>>
                        THEN NormStart(Len(data[k].List), start) ELSE 0
             IN /\ reply' = [op |-> op, key |-> k, err |-> o.err, ret |-> o.ret]
                /\ wire' = [pc |-> "held", op |-> op, key |-> k,
                            shares |-> Shares(op, data, now, k, o), off |-> off,
                            returned |-> o.ret, seen |-> o.ret]
    /\ UNCHANGED <<data, now, writeQueue, aof, sweep, pending>>
    /\ UNCHANGED <<disk, savers, started, restarts, acked>>

\* LSet or HSet of another connection, from Lock to the deferred Unlock:
\* list[index] = value writes the stored backing array and hashMap[field] =
\* value the stored map, whoever else holds them; an HSet that finds no hash
\* makes a new map
WriteReturns ==
    /\ "Listen" \in started
    /\ \E op \in {"LSET", "HSET"}, k \in Keys, i \in Idx, f \in Fields, v \in Vals :
          /\ op = "LSET" => f = <<"f">>
          /\ op = "HSET" => i = 0
          /\ LET o == IF op = "LSET" THEN LSet(data, now, k, i, v) ELSE HSet(data, now, k, f, v)
                 inPlace == /\ o.err = ErrNone
                            /\ k \in DOMAIN data /\ ~Expired(data[k], now)
                 hit == /\ wire.pc = "held" /\ wire.key = k
                        /\ wire.shares = (IF op = "LSET" THEN "list" ELSE "map")
             IN /\ data' = o.data
                /\ reply' = [op |-> op, key |-> k, err |-> o.err, ret |-> o.ret]
                /\ aof' = IF o.log /= NoLog /\ aof.enabled
                          THEN LogCommand(aof, o.log[1].cmd, o.log[1].args) ELSE aof
                /\ writeQueue' = IF o.trig THEN triggerWrite(writeQueue) ELSE writeQueue
                /\ wire' = IF hit /\ inPlace THEN [wire EXCEPT !.seen = View(wire, o.data)]
                           ELSE wire
    /\ UNCHANGED <<now, sweep, pending>>
    /\ UNCHANGED <<disk, savers, started, restarts, acked>>

\* the handler builds the reply from the result it holds (resp.NewArray over
\* the elements of the slice, fmt.Fprintf of the map) and lets go of it
ResultUsed ==
    /\ wire.pc = "held"
    /\ wire' = NoResult
    /\ UNCHANGED <<storeVars, disk, savers, started, restarts, acked>>

\* one key holding a list or a hash, or none, and no result held
InitAlias ==
    /\ data \in {EmptyMap}
          \cup {MapPut(EmptyMap, k, ListValue(l, NoExp)) : k \in Keys, l \in SeqsUpTo(Vals, MaxLen)}
          \cup {MapPut(EmptyMap, k, HashValue(h, NoExp)) :
                   k \in Keys, h \in UNION {[fs -> Vals] : fs \in SUBSET Fields}}
    /\ now = 0
    /\ writeQueue = 0
    /\ aof = NoAOF
    /\ reply = NoReply
    /\ sweep = {}
    /\ pending = [k \in Keys |-> 0]
    /\ disk = [snap |-> NoFile, tmp |-> NoFile]
    /\ savers = [p \in Savers |-> IdleSaver]
    /\ started = BootSteps
    /\ restarts = 0
    /\ acked = EmptyMap
    /\ wire = NoResult

NextAlias == ReadReturns \/ WriteReturns \/ ResultUsed

\* a connection reading beside a connection that writes the same key
SpecAlias == InitAlias /\ [][NextAlias]_vars

(* ================================================================ claims *)
ReadOps == {"GET", "LRANGE", "LLEN", "LINDEX", "HGET", "HGETALL", "HEXISTS", "HLEN", "HKEYS", "HVALS"}

\* the client action that serves command op
OpStep(op) ==
    CASE op = "SET" -> ClientSet
      [] op = "GET" -> ClientGet
      [] op = "DEL" -> ClientDelete
      [] op = "ALL" -> ClientAll
      [] op = "EXPIRE" -> ClientExpire
      [] op = "TTL" -> ClientTTL
      [] op = "LPUSH" -> ClientLPush
      [] op = "RPUSH" -> ClientRPush
      [] op = "LPOP" -> ClientLPop
      [] op = "RPOP" -> ClientRPop
      [] op = "LRANGE" -> ClientLRange
      [] op = "LLEN" -> ClientLLen
      [] op = "LINDEX" -> ClientLIndex
      [] op = "LSET" -> ClientLSet
      [] op = "LREM" -> ClientLRem
      [] op = "LTRIM" -> ClientLTrim
      [] op = "HSET" -> ClientHSet
      [] op = "HGET" -> ClientHGet
      [] op = "HDEL" -> ClientHDel
      [] op = "HGETALL" -> ClientHGetAll
      [] op = "HEXISTS" -> ClientHExists
      [] op = "HLEN" -> ClientHLen
      [] op = "HKEYS" -> ClientHKeys
      [] op = "HVALS" -> ClientHVals
      [] OTHER -> FALSE

\* key k is in the map with its expiration instant in the past
ExpiredEntry(k) == k \in DOMAIN data /\ Expired(data[k], now)
\* key k is in the map, not expired, and holds another kind than ty
WrongKind(k, ty) == k \in DOMAIN data /\ ~Expired(data[k], now) /\ data[k].Type /= ty

\* a reply that carries no data of the key: not-found, an empty result or 0
CarriesNoData(r) ==
    /\ r.err \in {ErrNone, ErrNotFound}
    /\ r.ret.int = 0 /\ r.ret.str = <<>> /\ r.ret.list = <<>>
    /\ r.ret.hash = EmptyHash /\ r.ret.all = EmptyAll

\* C1: in every step of the sweeper or of a deferred deletion, a key whose String
\* value get returns before the step (a set stored it, and it was neither deleted
\* nor overwritten by a client nor has expired) is still returned by get after it.
C1_SetThenGet ==
    [][(DeferredDelete \/ SweepDelete) =>
         \A k \in DOMAIN data :
            (data[k].Type = TypeString /\ Get(data, now, k).err = ErrNone)
                => Get(data', now', k) = Get(data, now, k)]_vars

\* C2: a read operation (get, lrange, llen, lindex, hget, hgetall, hexists, hlen,
\* hkeys, hvals) on a key whose expiration instant is in the past replies
\* not-found, an empty result or 0, and the map all returns has no such key.
C2_ExpiredInvisible ==
    [][/\ (reply'.op \in ReadOps /\ ExpiredEntry(reply'.key) /\ OpStep(reply'.op))
            => CarriesNoData(reply')
       /\ (reply'.op = "ALL" /\ ClientAll)
            => \A k \in DOMAIN reply'.ret.all : ~ExpiredEntry(k)]_vars

\* a read has just answered not-found/empty for a key that is still in the map, expired
C2_Witness ==
    /\ reply.op \in {"GET", "LLEN", "HGETALL"}
    /\ ExpiredEntry(reply.key)
    /\ CarriesNoData(reply)

\* C8: no key of the store maps to an empty List or an empty Hash.
C8_NoEmptyContainer ==
    \A k \in DOMAIN data :
        /\ data[k].Type = TypeList => Len(data[k].List) > 0
        /\ data[k].Type = TypeHash => DOMAIN data[k].Hash /= {}

\* a removal has just taken the last element or field, and the key is gone
C8_Witness ==
    /\ reply.err = ErrNone
    /\ reply.key \notin DOMAIN data
    /\ \/ reply.op \in {"LPOP", "RPOP"} /\ reply.ret.str \in Vals
       \/ reply.op \in {"LREM", "HDEL"} /\ reply.ret.int > 0

\* C10: a get that succeeds returns a String: on an unexpired key holding a List
\* or a Hash get fails with a type mismatch and returns no data.
C10_GetStringOnly ==
    [][(reply'.op = "GET" /\ ClientGet /\ WrongKind(reply'.key, TypeString))
          => (reply'.err \notin {ErrNone, ErrNotFound} /\ CarriesNoData([reply' EXCEPT !.err = ErrNone]))]_vars

\* C3: with the AOF enabled under AOFSyncAlways, a store operation that succeeds
\* and changes the map has, when it returns, appended one line to the AOF and
\* fsynced it (nothing left in the buffer, every line of the file synced).
C3_LoggedBeforeReturn ==
    [][(aof.enabled /\ aof.syncPolicy = AOFSyncAlways /\ data' /= data
            /\ reply'.err = ErrNone /\ OpStep(reply'.op))
          => /\ Len(aof'.file) = Len(aof.file) + 1
             /\ aof'.buf = <<>>
             /\ aof'.synced = Len(aof'.file)]_vars

\* C9: a list operation on an unexpired key holding a String or a Hash, and a hash
\* operation on an unexpired key holding a String or a List, returns the
\* type-mismatch error and leaves the map, the AOF and the signal queue unchanged.
C9_TypeMismatchNoEffect ==
    [][/\ (reply'.op \in ListOps /\ WrongKind(reply'.key, TypeList) /\ OpStep(reply'.op))
            => (reply'.err = ErrNotList /\ UNCHANGED <<data, aof, writeQueue>>)
       /\ (reply'.op \in HashOps /\ WrongKind(reply'.key, TypeHash) /\ OpStep(reply'.op))
            => (reply'.err = ErrNotHash /\ UNCHANGED <<data, aof, writeQueue>>)]_vars

\* a list command has just failed on a String key, with a line already in the AOF
C9_Witness ==
    /\ reply.op \in ListOps
    /\ reply.err = ErrNotList
    /\ WrongKind(reply.key, TypeList)
    /\ Len(aof.buf) + Len(aof.file) > 0

\* the map a start recovers from the AOF alone
Replayed == LoadAOF(EmptyMap, now, aof.file).data
\* startup has finished and no client command has been served since
JustRecovered == BootDone /\ reply.op = ""

\* C4: after a kill of the serving process and a restart (snapshot load, then AOF
\* replay) under AOFSyncAlways, the recovered map holds what the acknowledged
\* commands left: the same keys with the same values.
C4_AckedRecovered ==
    (restarts > 0 /\ JustRecovered /\ aof.syncPolicy = AOFSyncAlways)
        => /\ DOMAIN data = DOMAIN acked
           /\ \A k \in DOMAIN acked : data[k].Type = acked[k].Type /\ data[k].Str = acked[k].Str

\* C5: the snapshot file is absent or the complete serialization of one state of
\* the map, at every instant, also while several saves run at once.
C5_SnapshotComplete == disk.snap.exists => disk.snap.complete

\* C6 (second part): with the AOF enabled, a successful mutation that no save
\* has serialized yet is in the AOF: the step of the mutation itself, after
\* which no save can have run, appends a line to the AOF.
C6_UnsavedIsLogged ==
    [][(data' /= data /\ aof.enabled /\ reply'.err = ErrNone /\ OpStep(reply'.op))
          => Len(aof'.buf) + Len(aof'.file) > Len(aof.buf) + Len(aof.file)]_vars

\* C7: the snapshot is loaded before the AOF is replayed; the snapshot writer,
\* the sweeper and the accept loop start after both; no save, sweep or client
\* command happens before both are done; and once startup has finished, every
\* key the AOF sets has the value the AOF gives it, whatever the snapshot held.
C7_RecoveryFirst ==
    /\ "LoadAOF" \in started => "load" \in started
    /\ started \cap {"writeLoop", "expirationChecker", "Listen"} /= {}
          => {"load", "LoadAOF"} \subseteq started
    /\ ((\E p \in Savers : savers[p].pc /= "idle") \/ sweep /= {} \/ reply.op /= "")
          => {"load", "LoadAOF"} \subseteq started
    /\ JustRecovered
          => \A k \in DOMAIN Replayed : k \in DOMAIN data /\ data[k] = Replayed[k]

\* startup has finished on a snapshot and an AOF that disagree on a key, and the
\* map has the AOF's value
C7_Witness ==
    /\ JustRecovered
    /\ disk.snap.complete
    /\ \E k \in DOMAIN Replayed :
          /\ k \in DOMAIN disk.snap.body
          /\ disk.snap.body[k].str /= Replayed[k].Str
          /\ data[k].Str = Replayed[k].Str

\* the list a client sees under key k: empty when k is absent or expired
VisibleList(k) ==
    IF k \in DOMAIN data /\ ~Expired(data[k], now) /\ data[k].Type = TypeList
    THEN data[k].List ELSE <<>>
\* key k is absent (or expired) or holds a list
ListOrAbsent(k) == ~WrongKind(k, TypeList)
\* what lrange(k, 0, -1) returns after the step
WholeListAfter(k) == LRange(data', now', k, 0, 0 - 1).ret.list
PushArgs == SeqsUpTo(Vals, MaxLen) \ {<<>>}
RECURSIVE Reverse(_)
Reverse(s) == IF s = <<>> THEN <<>> ELSE Append(Reverse(Tail(s)), s[1])

C12_LPushFirstAtHead ==
    [][reply'.op = "LPUSH" =>
         \A vs \in PushArgs :
            (ListOrAbsent(reply'.key) /\ Step("LPUSH", reply'.key, LPush(data, now, reply'.key, vs)))
               => /\ reply'.err = ErrNone
                  /\ LIndex(data', now', reply'.key, 0).err = ErrNone
                  /\ LIndex(data', now', reply'.key, 0).ret.str = vs[1]]_vars

\* an lpush of two distinct values has just returned, the list starting with them
C12_Witness ==
    /\ reply.op = "LPUSH" /\ reply.err = ErrNone /\ reply.ret.int = 2
    /\ reply.key \in DOMAIN data
    /\ data[reply.key].List[1] /= data[reply.key].List[2]

\* C13: after lpush(k, x1..xn) on an absent key or an existing list L,
\* lrange(k, 0, -1) is xn, ..., x1 (the arguments reversed) followed by L.
C13_LPushReversed ==
    [][reply'.op = "LPUSH" =>
         \A vs \in PushArgs :
            (ListOrAbsent(reply'.key) /\ Step("LPUSH", reply'.key, LPush(data, now, reply'.key, vs)))
               => WholeListAfter(reply'.key) = Reverse(vs) \o VisibleList(reply'.key)]_vars

\* the inclusive range start..stop of list as the specification words it:
\* s = max(0, start<0 ? len+start : start), e = min(len-1, stop<0 ? len+stop : stop)
RangeBegin(list, start) ==
    LET s == IF start < 0 THEN Len(list) + start ELSE start
    IN IF s > 0 THEN s ELSE 0
RangeEnd(list, stop) ==
    LET e == IF stop < 0 THEN Len(list) + stop ELSE stop
    IN IF e < Len(list) - 1 THEN e ELSE Len(list) - 1
ExpectedRange(list, start, stop) ==
    LET s == RangeBegin(list, start)
        e == RangeEnd(list, stop)
    IN IF s > e \/ s >= Len(list) THEN <<>>
       ELSE [i \in 1..(e - s + 1) |-> list[s + i]]

\* C14: in every reachable state, lrange(k, start, stop) on a list returns exactly
\* the elements at positions s..e inclusive (s, e the normalised and clamped
\* bounds), the empty sequence when s > e or s >= len or the key is absent, and
\* every position it reads is inside the list.
C14_LRangeWindow ==
    \A k \in Keys, start \in Idx, stop \in Idx :
       ListOrAbsent(k) =>
          LET o    == LRange(data, now, k, start, stop)
              list == VisibleList(k)
          IN /\ o.err = ErrNone
             /\ o.data = data
             /\ o.ret.list = ExpectedRange(list, start, stop)
             /\ o.ret.list /= <<>> =>
                   /\ 0 <= RangeBegin(list, start)
                   /\ RangeBegin(list, start) <= RangeEnd(list, stop)
                   /\ RangeEnd(list, stop) < Len(list)

\* an lrange has just returned a one-element part of a two-element list
C14_Witness ==
    /\ reply.op = "LRANGE" /\ reply.err = ErrNone
    /\ Len(reply.ret.list) = 1
    /\ Len(VisibleList(reply.key)) = 2

\* positions (1-based) of value in list, and the j-th smallest member of a set
Occurrences(list, value) == {i \in 1..Len(list) : list[i] = value}
Nth(S, j) == CHOOSE p \in S : Cardinality({q \in S : q < p}) = j - 1
\* list without the positions in gone, the others in their original order
Without(list, gone) ==
    LET kept == (1..Len(list)) \ gone
    IN [j \in 1..Cardinality(kept) |-> list[Nth(kept, j)]]
\* how many occurrences lrem is to remove, and which
RemCount(m, count) ==
    IF count = 0 THEN m
    ELSE LET c == IF count < 0 THEN 0 - count ELSE count
         IN IF c < m THEN c ELSE m
RemPositions(list, count, value) ==
    LET occ == Occurrences(list, value)
        m   == Cardinality(occ)
        n   == RemCount(m, count)
    IN IF count >= 0
       THEN {p \in occ : Cardinality({q \in occ : q < p}) < n}
       ELSE {p \in occ : Cardinality({q \in occ : q > p}) < n}

\* C15: lrem(k, count, v) on a list removes the first min(count, m) occurrences
\* of v when count > 0, the last min(|count|, m) when count < 0 and all m when
\* count = 0; it returns the number removed and the other elements keep their
\* relative order.
C15_LRemCounts ==
    [][reply'.op = "LREM" =>
         \A count \in Idx, v \in Vals :
            (VisibleList(reply'.key) /= <<>>
                /\ Step("LREM", reply'.key, LRem(data, now, reply'.key, count, v)))
               => LET list == VisibleList(reply'.key)
                      gone == RemPositions(list, count, v)
                  IN /\ reply'.err = ErrNone
                     /\ reply'.ret.int = Cardinality(gone)
                     /\ reply'.ret.int = RemCount(Cardinality(Occurrences(list, v)), count)
                     /\ WholeListAfter(reply'.key) = Without(list, gone)]_vars

\* an lrem has just removed two of three occurrences of a, leaving a, b, c
\* (the list was a, b, a, c, a and the count -2)
C15_Witness ==
    /\ reply.op = "LREM" /\ reply.ret.int = 2
    /\ VisibleList(reply.key) = << <<"a">>, <<"b">>, <<"c">> >>

\* the 0-based position a signed index addresses in a list of length len, or -1
\* when the index lies outside [-len, len-1]
Addressed(len, i) ==
    IF 0 <= i /\ i < len THEN i
    ELSE IF 0 - len <= i /\ i < 0 THEN len + i
    ELSE 0 - 1

\* C16: in every reachable state holding a list, lindex(k, i) and lset(k, i, v)
\* address element i for 0 <= i < len and element len+i for -len <= i < 0; for
\* any other i both fail with "index out of range", and the failed lset leaves
\* the store unchanged, logs nothing and does not signal the snapshot writer.
C16_IndexAddressing ==
    \A k \in Keys, i \in Idx, v \in Vals :
       VisibleList(k) /= <<>> =>
          LET list == VisibleList(k)
              p    == Addressed(Len(list), i)
              get  == LIndex(data, now, k, i)
              put  == LSet(data, now, k, i, v)
          IN IF p >= 0
             THEN /\ get.err = ErrNone /\ get.ret.str = list[p + 1]
                  /\ put.err = ErrNone
                  /\ put.data = [data EXCEPT ![k].List = [list EXCEPT ![p + 1] = v]]
             ELSE /\ get.err = ErrOutOfRange
                  /\ put.err = ErrOutOfRange
                  /\ put.data = data
                  /\ put.log = NoLog
                  /\ ~put.trig

\* an lset on a list has just failed with index out of range
C16_Witness ==
    /\ reply.op = "LSET" /\ reply.err = ErrOutOfRange
    /\ VisibleList(reply.key) /= <<>>

\* C17: in every reachable state, ltrim(k, start, stop) on a list leaves exactly
\* what lrange(k, start, stop) returns in that state, deleting the key when that
\* range is empty; on an absent key it returns OK and changes nothing.
C17_LTrimIsLRange ==
    \A k \in Keys, start \in Idx, stop \in Idx :
       LET range == LRange(data, now, k, start, stop).ret.list
           trim  == LTrim(data, now, k, start, stop)
       IN /\ VisibleList(k) /= <<>> =>
               /\ trim.err = ErrNone
               /\ LRange(trim.data, now, k, 0, 0 - 1).ret.list = range
               /\ IF range = <<>>
                  THEN k \notin DOMAIN trim.data
                  ELSE k \in DOMAIN trim.data /\ trim.data[k] = [data[k] EXCEPT !.List = range]
          /\ k \notin DOMAIN data =>
               /\ trim.err = ErrNone
               /\ trim.data = data

\* an ltrim has just left one element of a list
C17_Witness ==
    /\ reply.op = "LTRIM" /\ reply.err = ErrNone
    /\ Len(VisibleList(reply.key)) = 1

\* the hash a client sees under k: empty when k is absent or expired
VisibleHash(k) ==
    IF k \in DOMAIN data /\ ~Expired(data[k], now) /\ data[k].Type = TypeHash
    THEN data[k].Hash ELSE EmptyHash

\* C18: in every reachable state where k is absent or holds a hash, hset(k, f, v)
\* returns 1 when f was not in the hash (creating the hash if k is absent) and 0
\* when it was; an hget(k, f) that follows returns v; and every other field of
\* the hash keeps its value, no field appearing or disappearing besides f.
C18_HSetThenHGet ==
    \A k \in Keys, f \in Fields, v \in Vals :
       ~WrongKind(k, TypeHash) =>
          LET old == VisibleHash(k)
              set == HSet(data, now, k, f, v)
              get == HGet(set.data, now, k, f)
          IN /\ set.err = ErrNone
             /\ set.ret.int = (IF f \in DOMAIN old THEN 0 ELSE 1)
             /\ k \in DOMAIN set.data /\ set.data[k].Type = TypeHash
             /\ get.err = ErrNone /\ get.ret.str = v
             /\ DOMAIN set.data[k].Hash = DOMAIN old \cup {f}
             /\ \A g \in DOMAIN old \ {f} : set.data[k].Hash[g] = old[g]

\* an hset has just returned 0, having replaced a field of a two-field hash
C18_Witness ==
    /\ reply.op = "HSET" /\ reply.err = ErrNone /\ reply.ret.int = 0
    /\ Cardinality(DOMAIN VisibleHash(reply.key)) = 2

\* the process was killed with store acked in memory and the snapshot of exactly
\* that store on disk, and the restart has just run load
ReloadedFromSave ==
    /\ restarts > 0
    /\ started = {"load"}
    /\ disk.snap = Written(Marshal(acked))

\* C19: after writes, a save and a restart, the store load rebuilds holds exactly
\* the pre-restart keys that have not expired, each of the same kind, with the
\* same data in the form the list and hash commands work on, and the same
\* expiration.
C19_SnapshotRoundTrip ==
    ReloadedFromSave =>
        /\ {k \in DOMAIN data : ~Expired(data[k], now)}
               = {k \in DOMAIN acked : ~Expired(acked[k], now)}
        /\ \A k \in DOMAIN data :
              /\ data[k].Type = acked[k].Type
              /\ data[k].Str = acked[k].Str
              /\ data[k].List = acked[k].List
              /\ data[k].Hash = acked[k].Hash
              /\ data[k].Exp = acked[k].Exp
              /\ ~AssertionPanics(data, now, "LRANGE", k)
              /\ ~AssertionPanics(data, now, "HGET", k)

\* C20: for every well-formed RESP value, Parse applied to the bytes Marshal
\* produced succeeds and yields a value with the same type byte and the same
\* content (string, integer, null flag and array elements).
C20_RespRoundTrip ==
    wire.pc = "parsed" => (wire.err = ErrNone /\ wire.parsed = wire.val)

\* C21: every accepted connection is served by the handler its first byte
\* selects (a RESP tag: the RESP handler; any other byte or EOF: the text
\* handler), and what the handler has read and has still to read is the whole
\* stream from its first byte on
C21_FirstByteDispatch ==
    wire.pc = "handling" =>
        /\ wire.handler = DetectProtocol(wire.stream)
        /\ wire.read \o wire.reader = wire.stream

\* C22: TTL replies the integer -1 for a key that is absent and for a key
\* without an expiration, and the remaining whole seconds for a key that
\* carries an expiration, on the RESP and on the text connection
C22_TTLReplies ==
    \A k \in Keys :
        (k \notin DOMAIN data \/ ~Expired(data[k], now)) =>
            LET o == TTL(data, now, k)
                expected == IF k \notin DOMAIN data \/ data[k].Exp = NoExp
                            THEN 0 - 1
                            ELSE data[k].Exp - now
            IN /\ ttlCommand(o) = RespValue(Integer, <<>>, expected, <<>>, FALSE)
               /\ ttlText(o) = Itoa(expected) \o <<"\n">>

\* the String entry SET k v EX d leaves under k, with its expiration instant
TimedString(d, k) == k \in DOMAIN d /\ d[k].Type = TypeString /\ d[k].Exp /= NoExp

\* C23 as stated: right after SET k v EX d the TTL of k is in (0, d], and at
\* every time t >= the expiration instant get reports not-found and all has no k
C23_GoneAtExpiration ==
    [][/\ (reply'.op = "SET" /\ ClientSet /\ TimedString(data', reply'.key)) =>
             LET d == data'[reply'.key].Exp - now
                 ttl == TTL(data', now', reply'.key)
             IN ttl.err = ErrNone /\ ttl.ret.ns = 0 /\ 0 < ttl.ret.int /\ ttl.ret.int <= d
       /\ \A k \in Keys :
             (TimedString(data', k) /\ now' >= data'[k].Exp) =>
                 /\ Get(data', now', k).err = ErrNotFound
                 /\ k \notin DOMAIN All(data', now').ret.all]_vars

\* C23, amended: right after SET k v EX d the TTL of k is in (0, d], and at
\* every time t after the expiration instant get reports not-found and all has
\* no k
C23_GoneAfterExpiration ==
    [][/\ (reply'.op = "SET" /\ ClientSet /\ TimedString(data', reply'.key)) =>
             LET d == data'[reply'.key].Exp - now
                 ttl == TTL(data', now', reply'.key)
             IN ttl.err = ErrNone /\ ttl.ret.ns = 0 /\ 0 < ttl.ret.int /\ ttl.ret.int <= d
       /\ \A k \in Keys :
             (TimedString(data', k) /\ now' > data'[k].Exp) =>
                 /\ Get(data', now', k).err = ErrNotFound
                 /\ k \notin DOMAIN All(data', now').ret.all]_vars

\* the clock has passed the expiration instant a SET gave the key, and a get
\* has answered not-found while the entry is still in the map
C23_Witness ==
    /\ reply.op = "GET" /\ reply.err = ErrNotFound
    /\ TimedString(data, reply.key)
    /\ now > data[reply.key].Exp
    /\ reply.key \notin DOMAIN All(data, now).ret.all

\* C24: a GET for a key that is absent or expired is answered with a null bulk
\* string on a RESP connection and with (nil) on a text connection, never with
\* an error reply
C24_NotFoundEncoding ==
    \A k \in Keys :
        (k \notin DOMAIN data \/ Expired(data[k], now)) =>
            /\ getCommand(Get(data, now, k)) = RespValue(BulkString, <<>>, 0, <<>>, TRUE)
            /\ getText(Get(data, now, k)) = <<"(nil)", "\n">>

\* C25: expire, ttl and del on a key that is in the map with a past expiration
\* instant return not-found, and expire leaves the entry expired
C25_ExpiredIsAbsent ==
    [][(reply'.op \in {"EXPIRE", "TTL", "DEL"} /\ ExpiredEntry(reply'.key) /\ OpStep(reply'.op)) =>
          /\ reply'.err = ErrNotFound
          /\ reply'.key \in DOMAIN data' => Expired(data'[reply'.key], now')]_vars

\* C26: the sweeper's deletion under the write lock removes only keys whose
\* entry is expired at the time of the deletion; a key overwritten with a live
\* value since the collection stays in the map
C26_SweepDeletesExpiredOnly ==
    [][SweepDelete => \A k \in (DOMAIN data) \ (DOMAIN data') : Expired(data[k], now)]_vars

\* C27: a rewrite does not hold the AOF mutex while it reads the store and
\* writes the temporary file; it holds it only for the final swap
C27_DumpWithoutMutex ==
    (aof.rw = "create" \/ (aof.rw = "dump" /\ DOMAIN aof.snapshot /= {})) => aof.mu = ""

\* key k holds an unexpired String
LiveString(k) == k \in DOMAIN data /\ ~Expired(data[k], now) /\ data[k].Type = TypeString

\* C28: when a rewrite has swapped its file in, replaying that file onto an
\* empty store gives every live string key its value and its expiration
\* instant (the same remaining whole seconds), and gives no key that is not live
C28_RewriteReplays ==
    [][RewriteSwap =>
         LET r == LoadAOF(EmptyMap, now', aof'.file).data
         IN /\ \A k \in Keys :
                  LiveString(k) =>
                      /\ k \in DOMAIN r
                      /\ r[k].Type = TypeString
                      /\ r[k].Str = data[k].Str
                      /\ r[k].Exp = data[k].Exp
            /\ \A k \in DOMAIN r : k \in DOMAIN data /\ ~Expired(data[k], now)]_vars

\* the line LogCommand has just appended to the AOF
LastLogged(a) == (a.file \o a.buf)[Len(a.file) + Len(a.buf)]

\* C29: the line a command appends to the AOF parses back, with
\* parseCommandLine, into the command name followed by its arguments
C29_LoggedLineParses ==
    [][/\ \A k \in Keys, vs \in SeqsUpTo(Vals, MaxLen) :
             /\ (reply'.op = "RPUSH" /\ reply'.err = ErrNone /\ Step("RPUSH", k, RPush(data, now, k, vs))) =>
                    parseCommandLine(LastLogged(aof')) = [parts |-> <<<<"RPUSH">>, k>> \o vs, err |-> FALSE]
             /\ (reply'.op = "LPUSH" /\ reply'.err = ErrNone /\ Step("LPUSH", k, LPush(data, now, k, vs))) =>
                    parseCommandLine(LastLogged(aof')) = [parts |-> <<<<"LPUSH">>, k>> \o vs, err |-> FALSE]
       /\ \A k \in Keys :
             (reply'.op = "LPOP" /\ reply'.err = ErrNone /\ Step("LPOP", k, LPop(data, now, k))) =>
                 parseCommandLine(LastLogged(aof')) = [parts |-> <<<<"LPOP">>, k>>, err |-> FALSE]]_vars

\* the first token of an AOF line, as LoadAOF reads it
CommandOf(line) ==
    LET p == parseCommandLine(line)
    IN IF p.err \/ p.parts = <<>> THEN <<>> ELSE p.parts[1]

\* C30: the replay of the AOF at startup leaves the AOF (file and buffer) and
\* the signal queue as they were, and a file whose lines are FLUSH or commands
\* LoadAOF does not know leaves the store as it was
C30_ReplayIsSilent ==
    [][(Boot /\ "LoadAOF" \in started' /\ "LoadAOF" \notin started /\ aof.enabled) =>
          /\ aof' = aof
          /\ writeQueue' = writeQueue
          /\ (\A i \in DOMAIN aof.file : CommandOf(aof.file[i]) \notin {<<"SET">>, <<"EXPIRE">>})
                => data' = data]_vars

\* a start has just replayed a SET line: the key is in the map, and the queue
\* and the AOF buffer are empty, no goroutine running yet
C30_Witness ==
    /\ aof.enabled
    /\ \E i \in DOMAIN aof.file : CommandOf(aof.file[i]) = <<"SET">>
    /\ "LoadAOF" \in started /\ "writeLoop" \notin started
    /\ \E k \in DOMAIN data : data[k].Str = <<"b">>
    /\ writeQueue = 0 /\ aof.buf = <<>>

\* C31: writeLoop takes one signal at a time from the queue while idle and then
\* does exactly one save, after its timer or after a second signal that it
\* consumes too; from idle it also saves on a tick, consuming nothing; it starts
\* no save in any other way, and a signal it took is followed by its save
\* unless the process is killed first
C31_OneSavePerWake ==
    /\ [][LET pc  == savers["writeLoop"].pc
              pc1 == savers'["writeLoop"].pc
          IN /\ (pc = "idle" /\ pc1 = "debounce") => writeQueue' = writeQueue - 1
             /\ (pc = "debounce" /\ started' /= {}) => pc1 \in {"debounce", "marshalled"}
             /\ (pc1 = "marshalled" /\ pc /= "marshalled") =>
                   \/ pc = "idle" /\ writeQueue' = writeQueue
                   \/ pc = "debounce" /\ writeQueue' \in {writeQueue, writeQueue - 1}
             /\ (pc = "marshalled" /\ started' /= {}) => pc1 \in {"marshalled", "opened"}]_vars
    /\ (savers["writeLoop"].pc = "debounce") ~> (savers["writeLoop"].pc = "marshalled" \/ started = {})

\* writeLoop has taken the signal of a SET and, the debounce over, has begun
\* the one save that answers it, with the queue empty
C31_Witness ==
    /\ savers["writeLoop"].pc = "marshalled"
    /\ writeQueue = 0
    /\ reply.op = "SET"
    /\ savers["writeLoop"].bytes = Marshal(data)
    /\ DOMAIN data /= {}

\* C32: the locked section of a mutating store operation (the step of a
\* command that takes db.lock.Lock(), up to its deferred Unlock) changes the
\* map and signals the snapshot writer only: it appends nothing to the AOF and
\* fsyncs nothing
C32_NoIOUnderLock ==
    [][(reply'.op \in LockOps /\ OpStep(reply'.op)) =>
          (aof'.buf = aof.buf /\ aof'.file = aof.file /\ aof'.synced = aof.synced)]_vars

\* C33: when the process has exited after an interrupt, the snapshot file is a
\* complete serialization that holds every key set before the signal was
\* received
C33_ShutdownSnapshot ==
    started = {"Exited"} =>
        /\ disk.snap.complete
        /\ \A k \in DOMAIN acked : k \in DOMAIN disk.snap.body

\* the required commands, each with one argument list and what its store
\* operation does on the store as it is
RequiredCommands ==
    LET k == <<"k">>
        v == <<"a">>
        f == <<"f">>
        order == CHOOSE o \in Orders : TRUE
    IN {<<"SET", Set(data, k, v, NoExp)>>, <<"GET", Get(data, now, k)>>,
        <<"DEL", Delete(data, k)>>, <<"EXPIRE", Expire(data, now, k, 1)>>,
        <<"TTL", TTL(data, now, k)>>, <<"ALL", All(data, now)>>,
        <<"LPUSH", LPush(data, now, k, <<v>>)>>, <<"RPUSH", RPush(data, now, k, <<v>>)>>,
        <<"LPOP", LPop(data, now, k)>>, <<"RPOP", RPop(data, now, k)>>,
        <<"LRANGE", LRange(data, now, k, 0, 0 - 1)>>, <<"LLEN", LLen(data, now, k)>>,
        <<"LINDEX", LIndex(data, now, k, 0)>>, <<"LSET", LSet(data, now, k, 0, v)>>,
        <<"LREM", LRem(data, now, k, 0, v)>>, <<"LTRIM", LTrim(data, now, k, 0, 0)>>,
        <<"HSET", HSet(data, now, k, f, v)>>, <<"HGET", HGet(data, now, k, f)>>,
        <<"HDEL", HDel(data, now, k, <<f>>)>>, <<"HGETALL", HGetAll(data, now, k)>>,
        <<"HEXISTS", HExists(data, now, k, f)>>, <<"HLEN", HLen(data, now, k)>>,
        <<"HKEYS", HKeys(data, now, k, order)>>, <<"HVALS", HVals(data, now, k, order)>>}

\* C34: every required command reaches its handler on a RESP and on a text
\* connection alike: with the same arguments it leaves the same store and
\* succeeds or fails the same way, namely as its store operation does
C34_SameOnBothProtocols ==
    \A c \in RequiredCommands :
        LET r == executeCommand(c[1], data, c[2])
            x == textCommand(c[1], data, c[2])
        IN /\ r.data = c[2].data /\ r.err = c[2].err
           /\ x.data = c[2].data /\ x.err = c[2].err

\* the lines LogCommand wrote that the AOF holds, buffered ones included
PushLines == SelectSeq(aof.file \o aof.buf, LAMBDA l : l[1] = "RPUSH")
\* 1 while a push has changed the map and not yet logged
InFlight == IF wire.pc = "locked" /\ wire.log /= NoLog THEN 1 ELSE 0

\* C35: the lines of the logged mutations stand in the AOF in the order in which
\* the mutations were applied to the store, whichever connections issued them:
\* the logged lines are a run of the record of applied mutations that ends at the
\* last one applied (or just before the one still to be logged)
C35_LogFollowsApplyOrder ==
    LET n == Len(PushLines)
        last == Len(wire.applied) - InFlight
    IN /\ n <= last
       /\ PushLines = [i \in 1..n |-> wire.applied[last - n + i].line]

\* two different pushes of two connections, both applied and both logged
C35_Witness ==
    /\ wire.pc = "idle"
    /\ Len(wire.applied) = 2
    /\ wire.applied[1].conn /= wire.applied[2].conn
    /\ wire.applied[1].line /= wire.applied[2].line
    /\ Len(PushLines) = 2

\* a connection holds db.lock inside a push and waits in LogCommand for aof.mu
PushWaitsForMutex == wire.pc = "locked" /\ wire.log /= NoLog /\ aof.enabled /\ aof.mu /= ""
\* RewriteAOF holds aof.mu and its next call, db.All() or db.TTL(key), waits
\* for db.lock
RewriteWaitsForLock ==
    /\ aof.mu = "RewriteAOF"
    /\ (aof.rw = "create" \/ (aof.rw = "dump" /\ DOMAIN aof.snapshot /= {}))
    /\ WriteLocked

\* C36: no reachable state has a logged mutation and BGREWRITEAOF waiting for
\* each other, the one holding the store lock and waiting for the AOF mutex, the
\* other holding the AOF mutex and waiting for the store lock, so that neither
\* can ever complete
C36_NoLockCycle == ~(PushWaitsForMutex /\ RewriteWaitsForLock)

\* C37: the deletion a get deferred after it found key k expired removes k only
\* if the entry of k is still expired when the deletion takes the write lock; a
\* value a set wrote to k in between stays in the map
C37_DeferredDeleteRechecks ==
    [][DeferredDelete => \A k \in (DOMAIN data) \ (DOMAIN data') : Expired(data[k], now)]_vars

\* C38: every RESP frame the server decodes gets exactly one reply; a frame
\* that is an empty array, or whose first element is not a bulk string, gets
\* one error reply and runs no command, and the loop goes on to the next frame
\* with the connection and the process alive
C38_OneReplyPerFrame ==
    wire.pc \in {"replied", "panic"} =>
        /\ Len(wire.replies) = 1
        /\ (/\ wire.val.Type = Array /\ ~wire.val.Null
            /\ (wire.val.Array = <<>> \/ wire.val.Array[1].Type /= BulkString))
              => /\ wire.replies[1].Type = Error
                 /\ wire.ran = <<>>
                 /\ wire.pc = "replied"
                 /\ "Listen" \in started

\* C39: a RewriteAOF that fails leaves the live AOF with the lines it had and
\* its writer open, and a LogCommand under AOFSyncAlways that follows appends
\* its line to the file and fsyncs it
C39_FailedRewriteKeepsLog ==
    /\ [][RewriteFails => /\ aof'.file \o aof'.buf = aof.file \o aof.buf
                          /\ aof'.writer = "open"]_vars
    /\ [][(/\ reply'.op = "RPUSH" /\ OpStep(reply'.op)
           /\ reply'.err = ErrNone
           /\ aof.syncPolicy = AOFSyncAlways)
            => /\ Len(aof'.file) = Len(aof.file) + 1
               /\ aof'.synced = Len(aof'.file)]_vars

\* C40: the result a read (lrange, all, hgetall) returned stays what it was
\* when the read held the lock: while the connection holds it, no mutation of
\* the same key by another connection changes what it contains
C40_ResultIsSnapshot == wire.pc = "held" => wire.seen = wire.returned

====
